---- MODULE Spec2Model ----
(***************************************************************************)
(* Sensor-noise correction engine and zone distribution engine of the      *)
(* FIT file analyser, as a state machine over one caller-owned record      *)
(* array.  Numbers are exact rationals n/d; the JavaScript values that are *)
(* not finite numbers (null, undefined, NaN, +-Infinity, booleans,         *)
(* strings) are kept apart, because the code's comparisons, its typeof     *)
(* tests and its JSON round trip treat them differently.                   *)
(***************************************************************************)
EXTENDS Integers, Sequences, FiniteSets, TLC

VARIABLES
    heap,             \* object store: reference -> record (what the arrays point to)
    input,            \* the caller's array: a sequence of references
    orig,             \* the records the caller's array held before any call
    showFilteredData, \* useSensorDataFilter: filtering switched on
    filterMethod,     \* useSensorDataFilter: the method chosen
    originalData,     \* useSensorDataFilter: the copy kept for comparison
    call,             \* the call made: operation and options ("none" before it)
    result,           \* the returned array: a sequence of references
    stats,            \* the statistics object returned by fixSensorNoise
    series,           \* the time series handed to calculateZoneDistribution
    zones,            \* the zone table handed to calculateZoneDistribution
    zoneOut           \* what calculateZoneDistribution returned

vars == <<heap, input, orig, showFilteredData, filterMethod, originalData,
          call, result, stats, series, zones, zoneOut>>

----------------------------------------------------------------------------
(* Exact arithmetic on rationals [n, d] with d > 0, in lowest terms.       *)

Abs(x) == IF x < 0 THEN -x ELSE x

RECURSIVE GCD(_, _)
GCD(a, b) == IF b = 0 THEN a ELSE GCD(b, a % b)

Val(kind, n, d) == [k |-> kind, n |-> n, d |-> d]

Q(n, d) ==
    LET Lowest(s, g) == Val("num", (s * n) \div g, (s * d) \div g)
    IN  IF n = 0 THEN Val("num", 0, 1)
        ELSE Lowest(IF d < 0 THEN -1 ELSE 1, GCD(Abs(n), Abs(d)))

Num(n) == Val("num", n, 1)

Null == Val("null", 0, 1)
Undef == Val("undef", 0, 1)
NaN == Val("nan", 0, 1)
True == Val("bool", 1, 1)
False == Val("bool", 0, 1)
Inf(sign) == Val("inf", sign, 1)
Str(id) == Val("str", id, 1)

RAdd(a, b) ==
    LET Over(g) == Q(a.n * (b.d \div g) + b.n * (a.d \div g), (a.d \div g) * b.d)
    IN  Over(GCD(a.d, b.d))

RNeg(a) == Val("num", -a.n, a.d)

RSub(a, b) == RAdd(a, RNeg(b))

RMul(a, b) ==
    LET Cancelled(g1, g2) ==
            Val("num", (a.n \div g1) * (b.n \div g2), (a.d \div g2) * (b.d \div g1))
    IN  IF a.n = 0 \/ b.n = 0 THEN Num(0)
        ELSE Cancelled(GCD(Abs(a.n), b.d), GCD(Abs(b.n), a.d))

RInv(a) == IF a.n > 0 THEN Val("num", a.d, a.n) ELSE Val("num", -a.d, -a.n)

RDiv(a, b) == RMul(a, RInv(b))

RLt(a, b) ==
    LET Cross(g) == a.n * (b.d \div g) < b.n * (a.d \div g)
    IN  Cross(GCD(a.d, b.d))

RLe(a, b) == ~RLt(b, a)

RSign(a) == IF a.n > 0 THEN 1 ELSE IF a.n < 0 THEN -1 ELSE 0

RFloor(a) == a.n \div a.d

\* Math.round: the nearest integer, a tie going up
RRound(a) == (2 * a.n + a.d) \div (2 * a.d)

----------------------------------------------------------------------------
(* JavaScript values: typeof, ToNumber, the relational and the arithmetic  *)
(* operators.  A comparison with NaN on either side is false; arithmetic   *)
(* on NaN gives NaN; null counts as 0 and undefined as NaN.                *)

IsNumber(v) == v.k \in {"num", "nan", "inf"}    \* typeof v === 'number'

IsMissing(v) == v.k \in {"null", "undef"}       \* v === null || v === undefined

ToNumber(v) ==
    CASE v.k = "num" -> v
      [] v.k = "inf" -> v
      [] v.k = "null" -> Num(0)
      [] v.k = "bool" -> Num(v.n)
      [] OTHER -> NaN

IsNaN(v) == ToNumber(v).k = "nan"               \* the global isNaN(v)

Truthy(v) ==
    CASE v.k = "num" -> v.n # 0
      [] v.k = "inf" -> TRUE
      [] v.k = "bool" -> v.n = 1
      [] v.k = "str" -> TRUE
      [] OTHER -> FALSE

NLt(x, y) ==
    CASE x.k = "nan" \/ y.k = "nan" -> FALSE
      [] x.k = "inf" /\ y.k = "inf" -> x.n < y.n
      [] x.k = "inf" -> x.n < 0
      [] y.k = "inf" -> y.n > 0
      [] OTHER -> RLt(x, y)

JsLt(a, b) == NLt(ToNumber(a), ToNumber(b))
JsGt(a, b) == JsLt(b, a)
JsLe(a, b) ==
    LET Le(x, y) == x.k # "nan" /\ y.k # "nan" /\ ~NLt(y, x)
    IN  Le(ToNumber(a), ToNumber(b))
JsGe(a, b) == JsLe(b, a)

NAdd(x, y) ==
    CASE x.k = "nan" \/ y.k = "nan" -> NaN
      [] x.k = "inf" /\ y.k = "inf" -> IF x.n = y.n THEN x ELSE NaN
      [] x.k = "inf" -> x
      [] y.k = "inf" -> y
      [] OTHER -> RAdd(x, y)

NNeg(x) ==
    CASE x.k = "nan" -> NaN
      [] x.k = "inf" -> Inf(-x.n)
      [] OTHER -> RNeg(x)

NMul(x, y) ==
    CASE x.k = "nan" \/ y.k = "nan" -> NaN
      [] x.k = "inf" \/ y.k = "inf" ->
            IF x.n = 0 \/ y.n = 0 THEN NaN
            ELSE Inf((IF x.n > 0 THEN 1 ELSE -1) * (IF y.n > 0 THEN 1 ELSE -1))
      [] OTHER -> RMul(x, y)

NDiv(x, y) ==
    CASE x.k = "nan" \/ y.k = "nan" -> NaN
      [] x.k = "inf" /\ y.k = "inf" -> NaN
      [] x.k = "inf" -> Inf(x.n * (IF y.n < 0 THEN -1 ELSE 1))
      [] y.k = "inf" -> Num(0)
      [] y.n = 0 -> IF x.n = 0 THEN NaN ELSE Inf(RSign(x))
      [] OTHER -> RDiv(x, y)

JsAdd(a, b) == NAdd(ToNumber(a), ToNumber(b))
JsSub(a, b) == NAdd(ToNumber(a), NNeg(ToNumber(b)))
JsMul(a, b) == NMul(ToNumber(a), ToNumber(b))
JsDiv(a, b) == NDiv(ToNumber(a), ToNumber(b))

MathAbs(a) ==
    LET AbsOf(x) == CASE x.k = "nan" -> NaN
                      [] x.k = "inf" -> Inf(1)
                      [] OTHER -> Val("num", Abs(x.n), x.d)
    IN  AbsOf(ToNumber(a))

MathMax(a, b) ==
    LET MaxOf(x, y) ==
            IF x.k = "nan" \/ y.k = "nan" THEN NaN ELSE IF NLt(x, y) THEN y ELSE x
    IN  MaxOf(ToNumber(a), ToNumber(b))

MathMin(a, b) ==
    LET MinOf(x, y) ==
            IF x.k = "nan" \/ y.k = "nan" THEN NaN ELSE IF NLt(y, x) THEN y ELSE x
    IN  MinOf(ToNumber(a), ToNumber(b))

\* Math.round(v * 10) / 10
RoundOneDecimal(v) ==
    LET Rounded(x) == IF x.k = "num" THEN Q(RRound(RMul(x, Num(10))), 10) ELSE x
    IN  Rounded(ToNumber(v))

----------------------------------------------------------------------------
(* Square roots.  Math.sqrt of a rational that is a perfect square is that *)
(* rational; any other root is kept as the symbol sqrt(n/d), and the       *)
(* comparisons the code makes with it are decided exactly by squaring.     *)

\* the largest r in lo..hi with r * r <= n, by bisection
RECURSIVE ISqrtBetween(_, _, _)
ISqrtBetween(n, lo, hi) ==
    LET mid == (lo + hi + 1) \div 2
    IN  IF lo >= hi THEN lo
        ELSE IF mid * mid <= n THEN ISqrtBetween(n, mid, hi)
        ELSE ISqrtBetween(n, lo, mid - 1)

ISqrt(n) == ISqrtBetween(n, 0, IF n < 46340 THEN n ELSE 46340)

IsSquare(n) == ISqrt(n) * ISqrt(n) = n

\* Math.sqrt(r) for a rational r >= 0
MathSqrt(r) ==
    IF IsSquare(r.n) /\ IsSquare(r.d) THEN Q(ISqrt(r.n), ISqrt(r.d))
    ELSE Val("sqrt", r.n, r.d)

\* the square of a value returned by MathSqrt
Radicand(v) == IF v.k = "sqrt" THEN Val("num", v.n, v.d) ELSE RMul(v, v)

\* x < c * s, for rationals x and c >= 0 and s a value returned by MathSqrt
LtScaledRoot(x, c, s) ==
    x.n < 0 \/ RLt(RMul(x, x), RMul(RMul(c, c), Radicand(s)))

\* c * s < x, for rationals x and c >= 0 and s a value returned by MathSqrt
ScaledRootLt(c, s, x) ==
    x.n > 0 /\ RLt(RMul(RMul(c, c), Radicand(s)), RMul(x, x))

----------------------------------------------------------------------------
(* Records: a record is a function from the keys it holds to values.       *)
(* Reading a key it does not hold gives undefined.                         *)

Get(rec, key) == IF key \in DOMAIN rec THEN rec[key] ELSE Undef

Put(rec, key, v) ==
    [x \in DOMAIN rec \cup {key} |-> IF x = key THEN v ELSE rec[x]]

Has(rec, key) == Get(rec, key).k # "undef"      \* rec[key] !== undefined

\* side-channel keys of a target field
OriginalKey(field) == field \o "_original"
CorrectedKey(field) == field \o "_corrected"
MeanKey(field) == field \o "_mean"
StddevKey(field) == field \o "_stddev"
FilteredKey(field) == field \o "_filtered"

SideKeys(field) ==
    {OriginalKey(field), CorrectedKey(field), MeanKey(field), StddevKey(field),
     FilteredKey(field)}

\* JSON.stringify followed by JSON.parse, on one value: NaN and +-Infinity
\* are written as null
JsonValue(v) == IF v.k \in {"nan", "inf"} THEN Null ELSE v

\* ... on one record: a key whose value is undefined is left out
JsonRecord(rec) ==
    [x \in {y \in DOMAIN rec : rec[y].k # "undef"} |-> JsonValue(rec[x])]

\* JSON.parse(JSON.stringify(data)), the "deep clone" of the four strategies
JsonClone(data) == [i \in 1..Len(data) |-> JsonRecord(data[i])]

\* dataPoints.map(point => ({ ...point })), the working copy of fixSensorNoise
SpreadCopy(data) == [i \in 1..Len(data) |-> data[i]]

----------------------------------------------------------------------------
(* Threshold strategy: cleanSensorDataWithThresholds.                      *)

fixedDropThreshold == Q(1, 2)   \* const dropThreshold = 0.5: 50% drop from previous
minStableReading == 10          \* minimum value considered valid
speedChangeLimit == Q(1, 5)     \* less than 20% change in speed
minSpeedDivisor == Q(1, 10)     \* Math.max(0.1, |refPrevious|)

\* the search that stops at once, whatever the record holds
NextStableIdxAtOnce(cd, field, idx) == idx

\* the while loop: the first index from idx on whose value is neither
\* missing nor below minStableReading; Len + 1 when there is none
RECURSIVE NextStableIdx(_, _, _)
NextStableIdx(cd, field, idx) ==
    IF idx <= Len(cd)
       /\ (\/ IsMissing(Get(cd[idx], field))
           \/ JsLt(Get(cd[idx], field), Num(minStableReading)))
    THEN NextStableIdx(cd, field, idx + 1)
    ELSE idx

\* the body of the inner loop for one field at index i (i >= 2)
ThresholdPoint(cd, i, field, referenceField) ==
    LET current == Get(cd[i], field)
        previous == Get(cd[i - 1], field)
        refCurrent == Get(cd[i], referenceField)
        refPrevious == Get(cd[i - 1], referenceField)
        speedChange ==
            JsDiv(MathAbs(JsSub(refCurrent, refPrevious)),
                  MathMax(minSpeedDivisor, MathAbs(refPrevious)))
        marked ==
            [cd EXCEPT ![i] = Put(Put(cd[i], OriginalKey(field), current),
                                  CorrectedKey(field), True)]
        nextStableIdx == NextStableIdx(marked, field, i + 1)
        gap == nextStableIdx - (i - 1)
        step == JsDiv(JsSub(Get(marked[nextStableIdx], field), previous), Num(gap))
        interpolated ==
            [j \in 1..Len(marked) |->
                IF i <= j /\ j < nextStableIdx
                THEN Put(Put(Put(marked[j],
                                 OriginalKey(field), Get(marked[j], field)),
                             field, JsAdd(previous, JsMul(step, Num(j - (i - 1))))),
                         CorrectedKey(field), True)
                ELSE marked[j]]
        held == [marked EXCEPT ![i] = Put(marked[i], field, previous)]
    IN  IF IsMissing(current) \/ IsMissing(previous) THEN cd
        ELSE IF ~(/\ JsLt(current, JsMul(previous, JsSub(Num(1), fixedDropThreshold)))
                  /\ JsLt(current, Num(minStableReading))) THEN cd
        ELSE IF IsMissing(refCurrent) \/ IsMissing(refPrevious) THEN cd
        ELSE IF ~JsLt(speedChange, speedChangeLimit) THEN cd
        ELSE IF nextStableIdx <= Len(marked) THEN interpolated
        ELSE held

RECURSIVE ThresholdFields(_, _, _, _, _)
ThresholdFields(cd, i, rateFields, f, referenceField) ==
    IF f > Len(rateFields) THEN cd
    ELSE ThresholdFields(ThresholdPoint(cd, i, rateFields[f], referenceField),
                         i, rateFields, f + 1, referenceField)

RECURSIVE ThresholdLoop(_, _, _, _)
ThresholdLoop(cd, i, rateFields, referenceField) ==
    IF i > Len(cd) THEN cd
    ELSE ThresholdLoop(ThresholdFields(cd, i, rateFields, 1, referenceField),
                       i + 1, rateFields, referenceField)

cleanSensorDataWithThresholds(data, rateFields, referenceField) ==
    IF Len(data) = 0 THEN <<>>
    ELSE ThresholdLoop(JsonClone(data), 2, rateFields, referenceField)

----------------------------------------------------------------------------
(* Moving-average strategy: applyMovingAverageFilter.                      *)

outlierDeviations == 2          \* more than 2 standard deviations below the mean

\* the sum of a sequence of values; the arithmetic is exact, so the grouping of
\* the additions is immaterial, and the sequence is halved to keep it shallow
RECURSIVE SumSeq(_)
SumSeq(s) ==
    IF Len(s) = 0 THEN Num(0)
    ELSE IF Len(s) = 1 THEN JsAdd(s[1], Num(0))
    ELSE JsAdd(SumSeq(SubSeq(s, 1, Len(s) \div 2)),
               SumSeq(SubSeq(s, Len(s) \div 2 + 1, Len(s))))

RECURSIVE SumSqDev(_, _)
SumSqDev(s, mean) ==
    IF Len(s) = 0 THEN Num(0)
    ELSE LET Square(deviation) == JsMul(deviation, deviation)
         IN  JsAdd(Square(JsSub(s[1], mean)), SumSqDev(Tail(s), mean))

RECURSIVE SelectValid(_)
SelectValid(s) ==        \* .filter(v => v !== null && v !== undefined && !isNaN(v))
    IF Len(s) = 0 THEN <<>>
    ELSE IF ~IsMissing(s[1]) /\ ~IsNaN(s[1]) THEN <<s[1]>> \o SelectValid(Tail(s))
    ELSE SelectValid(Tail(s))

\* the window reaching windowSize points to either side
MovingWindowFullWidth(res, i, field, windowSize) ==
    LET windowStart == IF i - windowSize < 1 THEN 1 ELSE i - windowSize
        windowEnd == IF i + windowSize > Len(res) THEN Len(res) ELSE i + windowSize
    IN  SelectValid([j \in 1..(windowEnd - windowStart + 1) |->
                        Get(res[windowStart + j - 1], field)])

\* the values of field in the window centred on i
MovingWindow(res, i, field, windowSize) ==
    LET windowStart == IF i - (windowSize \div 2) < 1 THEN 1 ELSE i - (windowSize \div 2)
        windowEnd == IF i + (windowSize \div 2) > Len(res) THEN Len(res)
                     ELSE i + (windowSize \div 2)
    IN  SelectValid([j \in 1..(windowEnd - windowStart + 1) |->
                        Get(res[windowStart + j - 1], field)])

\* first pass, one point: store the statistics of its window
MovingStatsPoint(res, i, field, windowSize) ==
    LET window == MovingWindow(res, i, field, windowSize)
        mean == JsDiv(SumSeq(window), Num(Len(window)))
        stdDev == MathSqrt(JsDiv(SumSqDev(window, mean), Num(Len(window))))
    IN  IF Len(window) > 0
        THEN [res EXCEPT ![i] = Put(Put(res[i], MeanKey(field), mean),
                                    StddevKey(field), stdDev)]
        ELSE res

RECURSIVE MovingStatsLoop(_, _, _, _)
MovingStatsLoop(res, i, field, windowSize) ==
    IF i > Len(res) THEN res
    ELSE MovingStatsLoop(MovingStatsPoint(res, i, field, windowSize),
                         i + 1, field, windowSize)

\* value < mean - 1 * stdDev
BelowOutlierLimitOneDeviation(value, mean, stdDev) ==
    ScaledRootLt(Num(1), stdDev, JsSub(mean, value))

\* value < mean - 2 * stdDev
BelowOutlierLimit(value, mean, stdDev) ==
    ScaledRootLt(Num(outlierDeviations), stdDev, JsSub(mean, value))

\* second pass, one point: replace an outlier by the moving average
MovingOutlierPoint(res, i, field) ==
    LET value == Get(res[i], field)
        mean == Get(res[i], MeanKey(field))
        stdDev == Get(res[i], StddevKey(field))
    IN  IF mean.k = "undef" \/ stdDev.k = "undef" THEN res
        ELSE IF ~IsMissing(value) /\ ~IsNaN(value) /\ BelowOutlierLimit(value, mean, stdDev)
        THEN [res EXCEPT ![i] = Put(Put(Put(res[i], OriginalKey(field), value),
                                        field, mean),
                                    CorrectedKey(field), True)]
        ELSE res

RECURSIVE MovingOutlierLoop(_, _, _)
MovingOutlierLoop(res, i, field) ==
    IF i > Len(res) THEN res
    ELSE MovingOutlierLoop(MovingOutlierPoint(res, i, field), i + 1, field)

RECURSIVE MovingFields(_, _, _, _)
MovingFields(res, fields, f, windowSize) ==
    IF f > Len(fields) THEN res
    ELSE MovingFields(
            MovingOutlierLoop(MovingStatsLoop(res, 1, fields[f], windowSize), 1, fields[f]),
            fields, f + 1, windowSize)

applyMovingAverageFilter(data, fields, windowSize) ==
    IF Len(data) = 0 THEN <<>>
    ELSE MovingFields(JsonClone(data), fields, 1, windowSize)

----------------------------------------------------------------------------
(* Correlation strategy: correlationBasedFiltering.  (The Pearson          *)
(* coefficient stored in the local `correlations` is never read and is not *)
(* modelled; the windowSize parameter is never read either.)               *)

minSampleSize == 10             \* pairs.length > 10
rangeDeviations == Q(5, 2)      \* ratioMean -/+ 2.5 * ratioStdDev
rangeSlack == Q(4, 5)           \* refValue * min * 0.8
suddenDropFactorTenth == Q(1, 10)
suddenDropFactor == Q(7, 10)    \* value < previous * 0.7
lowValueLimit == 5              \* value < 5 while speed is significant
lowValueSpeed == 3
rangeSpeed == 2
suddenDropPrevious == 10
suddenDropSpeed == 1
strokeRateSpeed == 7            \* field === 'stroke_rate' && refValue > 7 && value < 15
strokeRateLimit == 15
wattSpeed == 5                  \* field === 'watt' && refValue > 5 && value < 50
wattLimit == 50
strokeRateFloorSpeed == 5       \* Math.max(expectedValue, refValue > 5 ? 20 : 10)
strokeRateFloorHigh == 20
strokeRateFloorLow == 10
wattFloorSpeed == 3             \* Math.max(expectedValue, refValue > 3 ? 50 : 20)
wattFloorHigh == 50
wattFloorLow == 20

\* v !== null && v !== undefined && !isNaN(v) && v > 0
ValidPositive(v) == ~IsMissing(v) /\ ~IsNaN(v) /\ JsGt(v, Num(0))

\* the ratios target / reference over the records where both are valid
RECURSIVE PairRatios(_, _, _)
PairRatios(data, field, referenceField) ==
    IF Len(data) = 0 THEN <<>>
    ELSE IF ValidPositive(Get(data[1], field))
            /\ ValidPositive(Get(data[1], referenceField))
         THEN <<JsDiv(Get(data[1], field), Get(data[1], referenceField))>>
              \o PairRatios(Tail(data), field, referenceField)
         ELSE PairRatios(Tail(data), field, referenceField)

\* validRanges[field]: absent, or the mean and the deviation of the ratios
ValidRange(data, field, referenceField) ==
    LET ratios == PairRatios(data, field, referenceField)
        ratioMean == JsDiv(SumSeq(ratios), Num(Len(ratios)))
        ratioStdDev == MathSqrt(JsDiv(SumSqDev(ratios, ratioMean), Num(Len(ratios))))
    IN  IF Len(ratios) > minSampleSize
        THEN [present |-> TRUE, mean |-> ratioMean, stdDev |-> ratioStdDev]
        ELSE [present |-> FALSE, mean |-> Num(0), stdDev |-> Num(0)]

\* value < refValue * validRanges[field].min * 0.8, where
\* min = Math.max(0, ratioMean - 2.5 * ratioStdDev) and refValue > 0
BelowValidRange(value, refValue, range) ==
    IF ScaledRootLt(rangeDeviations, range.stdDev, range.mean)
    THEN ScaledRootLt(rangeDeviations, range.stdDev,
                      JsSub(range.mean, JsDiv(value, JsMul(refValue, rangeSlack))))
    ELSE JsLt(value, Num(0))

\* the nearest index before i (after i) holding a valid positive value; 0 if none
RECURSIVE LookBack(_, _, _)
LookBack(cd, field, idx) ==
    IF idx < 1 THEN 0
    ELSE IF ValidPositive(Get(cd[idx], field)) THEN idx
    ELSE LookBack(cd, field, idx - 1)

RECURSIVE LookAhead(_, _, _)
LookAhead(cd, field, idx) ==
    IF idx > Len(cd) THEN 0
    ELSE IF ValidPositive(Get(cd[idx], field)) THEN idx
    ELSE LookAhead(cd, field, idx + 1)

\* refValue * (validRanges[field]?.mean || 1), raised to the field's floor
ExpectedValue(field, refValue, range) ==
    LET ratio == IF range.present /\ Truthy(range.mean) THEN range.mean ELSE Num(1)
        expectedValue == JsMul(refValue, ratio)
    IN  IF field = "stroke_rate"
        THEN MathMax(expectedValue,
                     IF JsGt(refValue, Num(strokeRateFloorSpeed))
                     THEN Num(strokeRateFloorHigh) ELSE Num(strokeRateFloorLow))
        ELSE IF field = "watt"
        THEN MathMax(expectedValue,
                     IF JsGt(refValue, Num(wattFloorSpeed))
                     THEN Num(wattFloorHigh) ELSE Num(wattFloorLow))
        ELSE expectedValue

\* the replacement taken from the reference alone, whatever the neighbours hold
CorrelationReplacementExpected(cd, i, field, refValue, range) ==
    ExpectedValue(field, refValue, range)

\* the replacement written for a dropout at index i
CorrelationReplacement(cd, i, field, refValue, range) ==
    LET p == LookBack(cd, field, i - 1)
        n == LookAhead(cd, field, i + 1)
        prevValue == Get(cd[p], field)
        nextValue == Get(cd[n], field)
        gap == n - p                \* (nextIdx - 1) - (prevIdx + 1)
        step == JsDiv(JsSub(nextValue, prevValue), Num(gap + 1))
    IN  IF p # 0 /\ n # 0
        THEN IF gap > 0 THEN JsAdd(prevValue, JsMul(step, Num(i - p)))
             ELSE JsDiv(JsAdd(prevValue, nextValue), Num(2))
        ELSE IF p # 0 THEN prevValue
        ELSE IF n # 0 THEN nextValue
        ELSE ExpectedValue(field, refValue, range)

\* the body of the inner loop for one field at index i
CorrelationPoint(cd, i, field, referenceField, range) ==
    LET value == Get(cd[i], field)
        refValue == Get(cd[i], referenceField)
        before == IF i > 1 THEN Get(cd[i - 1], field) ELSE Undef
        isDropout ==
            \/ JsLt(value, Num(lowValueLimit)) /\ JsGt(refValue, Num(lowValueSpeed))
            \/ /\ range.present
               /\ BelowValidRange(value, refValue, range)
               /\ JsGt(refValue, Num(rangeSpeed))
            \/ /\ i > 1
               /\ JsGt(before, Num(suddenDropPrevious))
               /\ JsLt(value, JsMul(before, suddenDropFactor))
               /\ JsGt(refValue, Num(suddenDropSpeed))
            \/ /\ field = "stroke_rate"
               /\ JsGt(refValue, Num(strokeRateSpeed))
               /\ JsLt(value, Num(strokeRateLimit))
            \/ /\ field = "watt"
               /\ JsGt(refValue, Num(wattSpeed))
               /\ JsLt(value, Num(wattLimit))
    IN  IF IsMissing(refValue) \/ IsNaN(refValue) \/ JsLe(refValue, Num(0)) THEN cd
        ELSE IF IsMissing(value) \/ IsNaN(value) THEN cd
        ELSE IF isDropout
        THEN [cd EXCEPT ![i] =
                Put(Put(Put(cd[i], OriginalKey(field), value),
                        CorrectedKey(field), True),
                    field, CorrelationReplacement(cd, i, field, refValue, range))]
        ELSE cd

RECURSIVE CorrelationFields(_, _, _, _, _, _)
CorrelationFields(cd, i, data, targetFields, f, referenceField) ==
    IF f > Len(targetFields) THEN cd
    ELSE CorrelationFields(
            CorrelationPoint(cd, i, targetFields[f], referenceField,
                             ValidRange(data, targetFields[f], referenceField)),
            i, data, targetFields, f + 1, referenceField)

\* the loop deciding every point from the input alone, whatever was repaired before it
CorrelationLoopIndependent(cd, i, data, targetFields, referenceField) ==
    [k \in 1..Len(cd) |->
        IF k < i THEN cd[k]
        ELSE CorrelationFields(JsonClone(data), k, data, targetFields, 1, referenceField)[k]]

RECURSIVE CorrelationLoop(_, _, _, _, _)
CorrelationLoop(cd, i, data, targetFields, referenceField) ==
    IF i > Len(cd) THEN cd
    ELSE CorrelationLoop(CorrelationFields(cd, i, data, targetFields, 1, referenceField),
                         i + 1, data, targetFields, referenceField)

correlationBasedFiltering(data, targetFields, referenceField, windowSize) ==
    IF Len(data) = 0 THEN <<>>
    ELSE CorrelationLoop(JsonClone(data), 1, data, targetFields, referenceField)

----------------------------------------------------------------------------
(* Kalman strategy: class KalmanFilter and applyKalmanFilter.              *)

processNoise == Q(1, 20)        \* new KalmanFilter(.., .., 0.05, 1.0)
measurementNoise == Num(1)
initialCovariance == 1          \* with a valid initial value
uncertainCovariance == 10       \* without one: large initial uncertainty
sustainedDropFactor == Q(1, 2)  \* value < result[i-2][field] * 0.5
kalmanMotionSpeed == 1          \* result[i][speedField] > 1 && value < 10
kalmanLowValue == 10

KalmanFilter(initialValue, covariance) == [x |-> initialValue, P |-> covariance]

\* predict(): inflate the covariance; the prediction returned is the state x
KalmanPredict(filter) == [filter EXCEPT !.P = JsAdd(filter.P, processNoise)]

\* update that takes every measurement in, valid or not
KalmanUpdateAlways(filter, measurement, isValid) ==
    LET K == JsDiv(filter.P, JsAdd(filter.P, measurementNoise))
    IN  [x |-> JsAdd(filter.x, JsMul(K, JsSub(measurement, filter.x))),
         P |-> JsMul(JsSub(Num(1), K), filter.P)]

\* update(measurement, isValid): the filter after the call; it returns its x
KalmanUpdate(filter, measurement, isValid) ==
    LET K == JsDiv(filter.P, JsAdd(filter.P, measurementNoise))
    IN  IF ~isValid THEN filter
        ELSE [x |-> JsAdd(filter.x, JsMul(K, JsSub(measurement, filter.x))),
              P |-> JsMul(JsSub(Num(1), K), filter.P)]

\* data.find(d => valid positive d[field]): its index, 0 when there is none
RECURSIVE FindValidInitial(_, _, _)
FindValidInitial(data, field, idx) ==
    IF idx > Len(data) THEN 0
    ELSE IF ValidPositive(Get(data[idx], field)) THEN idx
    ELSE FindValidInitial(data, field, idx + 1)

InitialFilter(data, field) ==
    LET idx == FindValidInitial(data, field, 1)
    IN  IF idx # 0 THEN KalmanFilter(Get(data[idx], field), Num(initialCovariance))
        ELSE KalmanFilter(Num(0), Num(uncertainCovariance))

\* whether the raw value at index i is taken as a measurement
KalmanIsValid(res, i, field, dropThreshold) ==
    LET value == Get(res[i], field)
        prev == Get(res[i - 1], field)
        speed == Get(res[i], "enhanced_speed")
        plausible ==
            IF IsMissing(value) \/ IsNaN(value) \/ (value.k = "num" /\ value.n = 0)
            THEN FALSE
            ELSE IF i > 1 /\ ~IsMissing(prev) /\ ~IsNaN(prev) /\ JsGt(prev, Num(0))
            THEN ~(\/ JsLt(value, JsMul(prev, JsSub(Num(1), dropThreshold)))
                   \/ /\ i > 2
                      /\ JsGt(Get(res[i - 2], field), Num(0))
                      /\ JsLt(value, JsMul(Get(res[i - 2], field), sustainedDropFactor)))
            ELSE TRUE
    IN  IF /\ speed.k # "undef"
           /\ ~IsNaN(speed)
           /\ JsGt(speed, Num(kalmanMotionSpeed))
           /\ JsLt(value, Num(kalmanLowValue))
        THEN FALSE
        ELSE plausible

\* the iteration storing the estimate in the field of every point, valid or not
KalmanPointOverwrites(st, i, field, dropThreshold) ==
    LET predictedFilter == KalmanPredict(st.filter)
        value == Get(st.res[i], field)
        isValid == KalmanIsValid(st.res, i, field, dropThreshold)
        updated == KalmanUpdate(predictedFilter,
                                IF isValid THEN value ELSE predictedFilter.x, isValid)
        stored == Put(Put(st.res[i], field, updated.x), FilteredKey(field), updated.x)
    IN  [filter |-> updated,
         res |->
            IF ~isValid
            THEN [st.res EXCEPT ![i] =
                    Put(Put(stored, OriginalKey(field), value), CorrectedKey(field), True)]
            ELSE [st.res EXCEPT ![i] = stored]]

\* one iteration of the loop over the points: the records and the filter after it
KalmanPoint(st, i, field, dropThreshold) ==
    LET predictedFilter == KalmanPredict(st.filter)
        predicted == predictedFilter.x
        value == Get(st.res[i], field)
        isValid == KalmanIsValid(st.res, i, field, dropThreshold)
        updated == KalmanUpdate(predictedFilter,
                                IF isValid THEN value ELSE predicted, isValid)
        filtered == updated.x
    IN  [filter |-> updated,
         res |->
            IF ~isValid
            THEN [st.res EXCEPT ![i] =
                    Put(Put(Put(Put(st.res[i], OriginalKey(field), value),
                                field, filtered),
                            FilteredKey(field), filtered),
                        CorrectedKey(field), True)]
            ELSE [st.res EXCEPT ![i] = Put(st.res[i], FilteredKey(field), filtered)]]

RECURSIVE KalmanLoop(_, _, _, _)
KalmanLoop(st, i, field, dropThreshold) ==
    IF i > Len(st.res) THEN st
    ELSE KalmanLoop(KalmanPoint(st, i, field, dropThreshold), i + 1, field, dropThreshold)

\* the records and the filter of one field after its pass over the points
KalmanField(res, data, field, dropThreshold) ==
    KalmanLoop([filter |-> InitialFilter(data, field), res |-> res], 1, field,
               dropThreshold)

RECURSIVE KalmanFields(_, _, _, _, _)
KalmanFields(res, data, fields, f, dropThreshold) ==
    IF f > Len(fields) THEN res
    ELSE KalmanFields(KalmanField(res, data, fields[f], dropThreshold).res,
                      data, fields, f + 1, dropThreshold)

applyKalmanFilter(data, fields, dropThreshold) ==
    IF Len(data) = 0 THEN <<>>
    ELSE KalmanFields(JsonClone(data), data, fields, 1, dropThreshold)

----------------------------------------------------------------------------
(* The dispatchers: cleanSensorData and filterSensorData.                  *)

defaultFields == <<"stroke_rate", "watt">>
defaultReferenceField == "enhanced_speed"
defaultMovingWindow == 5        \* options.windowSize || 5
defaultCorrelationWindow == 30  \* options.windowSize || 30, and the default parameter
defaultDropThreshold == Q(1, 2) \* options.dropThreshold || 0.5

cleanSensorData(data, fields, referenceField) ==
    correlationBasedFiltering(data, fields, referenceField, defaultCorrelationWindow)

\* the dispatcher with 'auto' and the default falling through to the threshold case
filterSensorDataAutoThreshold(data, options) ==
    LET fields == IF options.fields # <<>> THEN options.fields ELSE defaultFields
        referenceField == IF options.referenceField # "" THEN options.referenceField
                          ELSE defaultReferenceField
    IN  CASE options.method = "movingAverage" ->
                applyMovingAverageFilter(data, fields,
                    IF options.windowSize # 0 THEN options.windowSize
                    ELSE defaultMovingWindow)
          [] options.method = "correlation" ->
                correlationBasedFiltering(data, fields, referenceField,
                    IF options.windowSize # 0 THEN options.windowSize
                    ELSE defaultCorrelationWindow)
          [] options.method = "kalman" ->
                applyKalmanFilter(data, fields,
                    IF options.dropThreshold.n # 0 THEN options.dropThreshold
                    ELSE defaultDropThreshold)
          [] OTHER -> cleanSensorDataWithThresholds(data, fields, referenceField)

\* options: [method, fields, referenceField, dropThreshold, windowSize]; an option
\* left out is undefined: <<>> for fields, "" for referenceField, 0 otherwise
filterSensorData(data, options) ==
    LET fields == IF options.fields # <<>> THEN options.fields ELSE defaultFields
        referenceField == IF options.referenceField # "" THEN options.referenceField
                          ELSE defaultReferenceField
    IN  CASE options.method = "threshold" ->
                cleanSensorDataWithThresholds(data, fields, referenceField)
          [] options.method = "movingAverage" ->
                applyMovingAverageFilter(data, fields,
                    IF options.windowSize # 0 THEN options.windowSize
                    ELSE defaultMovingWindow)
          [] options.method = "correlation" ->
                correlationBasedFiltering(data, fields, referenceField,
                    IF options.windowSize # 0 THEN options.windowSize
                    ELSE defaultCorrelationWindow)
          [] options.method = "kalman" ->
                applyKalmanFilter(data, fields,
                    IF options.dropThreshold.n # 0 THEN options.dropThreshold
                    ELSE defaultDropThreshold)
          [] OTHER ->     \* case 'auto' and default
                correlationBasedFiltering(data, fields, referenceField,
                                          defaultCorrelationWindow)

\* isCorrectedPoint(data, index, field), index counted from 1
isCorrectedPoint(data, index, field) ==
    IF index < 1 \/ index > Len(data) THEN FALSE
    ELSE Truthy(Get(data[index], CorrectedKey(field)))

\* getOriginalValue(data, index, field), index counted from 1
getOriginalValue(data, index, field) ==
    IF index < 1 \/ index > Len(data) THEN Null
    ELSE IF Get(data[index], OriginalKey(field)).k # "undef"
         THEN Get(data[index], OriginalKey(field))
         ELSE Get(data[index], field)

----------------------------------------------------------------------------
(* calculateFilterImprovementMetrics(originalData, filteredData, fields).  *)
(* An array argument is [missing, items]: the caller may pass null or      *)
(* undefined where an array is expected.                                   *)

Array(items) == [missing |-> FALSE, items |-> items]
NoArray == [missing |-> TRUE, items |-> <<>>]

metricsDropoutLimit == 5        \* originalValue < 5 || originalValue === 0

\* value !== null && value !== undefined && !isNaN(value)
IsValidReading(value) == ~IsMissing(value) /\ ~IsNaN(value)

IsDropoutReading(value) == JsLt(value, Num(metricsDropoutLimit)) \/ value = Num(0)

NoCounts ==
    [corrected |-> 0, originalDropouts |-> 0, filteredDropouts |-> 0,
     originalSum |-> Num(0), filteredSum |-> Num(0), validPoints |-> 0]

\* the body of the loop over i for one field
MetricsPoint(acc, originalArray, filteredArray, i, field) ==
    LET present == i <= Len(filteredArray)
        Counted(originalValue, filteredValue) ==
            [corrected |->
                IF present /\ Get(filteredArray[i], CorrectedKey(field)) = True
                THEN acc.corrected + 1 ELSE acc.corrected,
             originalDropouts |->
                IF IsValidReading(originalValue) /\ IsDropoutReading(originalValue)
                THEN acc.originalDropouts + 1 ELSE acc.originalDropouts,
             filteredDropouts |->
                IF IsValidReading(filteredValue) /\ IsDropoutReading(filteredValue)
                THEN acc.filteredDropouts + 1 ELSE acc.filteredDropouts,
             originalSum |->
                IF IsValidReading(originalValue)
                THEN JsAdd(acc.originalSum, originalValue) ELSE acc.originalSum,
             filteredSum |->
                IF IsValidReading(filteredValue)
                THEN JsAdd(acc.filteredSum, filteredValue) ELSE acc.filteredSum,
             validPoints |->
                IF IsValidReading(originalValue)
                THEN acc.validPoints + 1 ELSE acc.validPoints]
    IN  Counted(Get(originalArray[i], field),
                IF present THEN Get(filteredArray[i], field) ELSE Undef)

RECURSIVE MetricsLoop(_, _, _, _, _)
MetricsLoop(acc, originalArray, filteredArray, i, field) ==
    IF i > Len(originalArray) THEN acc
    ELSE MetricsLoop(MetricsPoint(acc, originalArray, filteredArray, i, field),
                     originalArray, filteredArray, i + 1, field)

\* the entries the loop over fields writes for one field
MetricsField(metrics, originalArray, filteredArray, field) ==
    LET Written(acc) ==
            [metrics EXCEPT
                !.correctedPoints = Put(@, field, acc.corrected),
                !.dropoutReduction =
                    Put(@, field,
                        [original |-> acc.originalDropouts,
                         filtered |-> acc.filteredDropouts,
                         reduction |-> acc.originalDropouts - acc.filteredDropouts,
                         percentReduction |->
                            IF acc.originalDropouts > 0
                            THEN JsMul(JsDiv(Num(acc.originalDropouts
                                                 - acc.filteredDropouts),
                                             Num(acc.originalDropouts)),
                                       Num(100))
                            ELSE Num(0)]),
                !.averageValues =
                    Put(@, field,
                        [original |-> IF acc.validPoints > 0
                                      THEN JsDiv(acc.originalSum, Num(acc.validPoints))
                                      ELSE Num(0),
                         filtered |-> IF acc.validPoints > 0
                                      THEN JsDiv(acc.filteredSum, Num(acc.validPoints))
                                      ELSE Num(0)])]
    IN  IF Len(originalArray) > 0 /\ Get(originalArray[1], field) = Undef THEN metrics
        ELSE Written(MetricsLoop(NoCounts, originalArray, filteredArray, 1, field))

RECURSIVE MetricsFields(_, _, _, _, _)
MetricsFields(metrics, originalArray, filteredArray, fields, f) ==
    IF f > Len(fields) THEN metrics
    ELSE MetricsFields(MetricsField(metrics, originalArray, filteredArray, fields[f]),
                       originalArray, filteredArray, fields, f + 1)

\* the function without its length guard
calculateFilterImprovementMetricsUnguarded(originalArray, filteredArray, fields) ==
    IF originalArray.missing \/ filteredArray.missing
    THEN [error |-> "Missing data for comparison"]
    ELSE MetricsFields([totalPoints |-> Len(originalArray.items),
                        correctedPoints |-> <<>>,
                        dropoutReduction |-> <<>>,
                        averageValues |-> <<>>],
                       originalArray.items, filteredArray.items, fields, 1)

calculateFilterImprovementMetrics(originalArray, filteredArray, fields) ==
    IF originalArray.missing \/ filteredArray.missing
    THEN [error |-> "Missing data for comparison"]
    ELSE IF Len(originalArray.items) # Len(filteredArray.items)
    THEN [error |-> "Data length mismatch",
          originalLength |-> Len(originalArray.items),
          filteredLength |-> Len(filteredArray.items)]
    ELSE MetricsFields([totalPoints |-> Len(originalArray.items),
                        correctedPoints |-> <<>>,
                        dropoutReduction |-> <<>>,
                        averageValues |-> <<>>],
                       originalArray.items, filteredArray.items, fields, 1)

----------------------------------------------------------------------------
(* Field accessor of fixSensorNoise: getValue and setValue over the        *)
(* spelling variants of a field name.  String.replace with a string        *)
(* pattern replaces the first occurrence only; the three tables give its   *)
(* result, and that of toUpperCase, on the field names the code passes.    *)

SpaceToUnderscore(name) ==          \* fieldBase.replace(' ', '_')
    CASE name = "stroke rate" -> "stroke_rate"
      [] OTHER -> name

UnderscoreToSpace(name) ==          \* fieldBase.replace('_', ' ')
    CASE name = "stroke_rate" -> "stroke rate"
      [] name = "enhanced_speed" -> "enhanced speed"
      [] name = "heart_rate" -> "heart rate"
      [] OTHER -> name

ToUpperCase(name) ==                \* fieldBase.toUpperCase()
    CASE name = "stroke rate" -> "STROKE RATE"
      [] name = "stroke_rate" -> "STROKE_RATE"
      [] name = "enhanced_speed" -> "ENHANCED_SPEED"
      [] name = "heart_rate" -> "HEART_RATE"
      [] name = "watt" -> "WATT"
      [] OTHER -> name

\* the contextual version tries three spellings
Variations(fieldBase) ==
    <<fieldBase, SpaceToUnderscore(fieldBase), UnderscoreToSpace(fieldBase)>>

\* getValue: the first spelling that holds a number (NaN is one)
RECURSIVE GetValueFrom(_, _, _)
GetValueFrom(point, variations, v) ==
    IF v > Len(variations) THEN Undef
    ELSE IF Has(point, variations[v]) /\ IsNumber(Get(point, variations[v]))
         THEN Get(point, variations[v])
         ELSE GetValueFrom(point, variations, v + 1)

getValue(point, fieldBase) == GetValueFrom(point, Variations(fieldBase), 1)

\* setValue: write the first spelling that is present, else the name given
RECURSIVE SetValueFrom(_, _, _, _, _)
SetValueFrom(point, fieldBase, variations, v, value) ==
    IF v > Len(variations) THEN Put(point, fieldBase, value)
    ELSE IF Has(point, variations[v]) THEN Put(point, variations[v], value)
    ELSE SetValueFrom(point, fieldBase, variations, v + 1, value)

setValue(point, fieldBase, value) ==
    SetValueFrom(point, fieldBase, Variations(fieldBase), 1, value)

----------------------------------------------------------------------------
(* fixSensorNoise, contextual version: options and window analysis.        *)

defaultOptions ==
    [maxStrokeRateDrop |-> 50, maxWattDrop |-> 60, speedStabilityThreshold |-> 15,
     minValidStrokeRate |-> 10, minValidWatt |-> 30, analysisWindowSize |-> 5,
     minValidPointsInWindow |-> 3, multiFieldCorrelation |-> TRUE,
     adaptiveThresholds |-> TRUE, temporalSmoothing |-> TRUE,
     outlierDetection |-> TRUE, contextualAwareness |-> TRUE]

RECURSIVE InsertSorted(_, _)
InsertSorted(x, s) ==
    IF Len(s) = 0 THEN <<x>>
    ELSE IF JsLe(x, s[1]) THEN <<x>> \o s
    ELSE <<s[1]>> \o InsertSorted(x, Tail(s))

RECURSIVE SortAscending(_)
SortAscending(s) ==                 \* [...values].sort((a, b) => a - b)
    IF Len(s) = 0 THEN <<>> ELSE InsertSorted(s[1], SortAscending(Tail(s)))

RECURSIVE SumProdDev(_, _, _, _)
SumProdDev(s1, s2, mean1, mean2) ==
    IF Len(s1) = 0 THEN Num(0)
    ELSE JsAdd(JsMul(JsSub(s1[1], mean1), JsSub(s2[1], mean2)),
               SumProdDev(Tail(s1), Tail(s2), mean1, mean2))

\* the first six decimals of r / q, as an integer, for 0 <= r < q
RECURSIVE Decimals(_, _, _)
Decimals(r, q, k) ==
    IF k = 0 THEN 0
    ELSE ((10 * r) \div q) * (10 ^ (k - 1)) + Decimals((10 * r) % q, q, k - 1)

\* Math.sqrt(r) for a rational 0 <= r <= 1 as a rational: exact when r is a
\* square, and cut after three decimals otherwise
SqrtOfFraction(r) ==
    IF IsSquare(r.n) /\ IsSquare(r.d) THEN Q(ISqrt(r.n), ISqrt(r.d))
    ELSE Q(ISqrt(Decimals(r.n, r.d, 6)), 1000)

\* calculateCorrelation(values1, values2)
calculateCorrelation(values1, values2) ==
    LET Signed(numerator, magnitude) ==
            IF numerator.n < 0 THEN RNeg(magnitude) ELSE magnitude
        Coefficient(numerator, product) ==
            IF product.k # "num" THEN NaN
            ELSE IF product.n = 0 THEN Num(0)
            ELSE Signed(numerator,
                        SqrtOfFraction(JsDiv(JsMul(numerator, numerator), product)))
        Around(mean1, mean2) ==
            Coefficient(SumProdDev(values1, values2, mean1, mean2),
                        JsMul(SumSqDev(values1, mean1), SumSqDev(values2, mean2)))
    IN  IF Len(values1) # Len(values2) \/ Len(values1) < 3 THEN Num(0)
        ELSE Around(JsDiv(SumSeq(values1), Num(Len(values1))),
                    JsDiv(SumSeq(values2), Num(Len(values2))))

\* the indices lo..hi, as a sequence
IndexRange(lo, hi) == [j \in 1..(IF hi < lo THEN 0 ELSE hi - lo + 1) |-> lo + j - 1]

Max2(a, b) == IF a > b THEN a ELSE b
Min2(a, b) == IF a < b THEN a ELSE b

RECURSIVE SelectDefined(_)
SelectDefined(s) ==                 \* .filter(v => v !== undefined)
    IF Len(s) = 0 THEN <<>>
    ELSE IF s[1].k # "undef" THEN <<s[1]>> \o SelectDefined(Tail(s))
    ELSE SelectDefined(Tail(s))

\* the classification by elapsed time: the first and the last 15% of the time
\* between the first record and the last, and main in between
detectWorkoutPhaseByTime(fixedData, centerIndex, options) ==
    LET Elapsed(k) == Get(fixedData[k], "timer_time").n - Get(fixedData[1], "timer_time").n
    IN  IF ~options.contextualAwareness THEN "main"
        ELSE IF 20 * Elapsed(centerIndex) < 3 * Elapsed(Len(fixedData)) THEN "warmup"
        ELSE IF 20 * Elapsed(centerIndex) > 17 * Elapsed(Len(fixedData)) THEN "cooldown"
        ELSE "main"

\* detectWorkoutPhase(centerIndex); indices count from 1, so the position the
\* code divides by the length is centerIndex - 1
detectWorkoutPhase(fixedData, centerIndex, options) ==
    LET totalPoints == Len(fixedData)
        windowSize == Min2(20, totalPoints \div 20)
        scanned == {j \in Max2(2, centerIndex - windowSize)
                          ..Min2(totalPoints, centerIndex - 1 + windowSize) : TRUE}
        speedVaries(j) ==
            LET Varies(speed, prevSpeed) ==
                    /\ speed.k # "undef" /\ prevSpeed.k # "undef"
                    /\ JsGt(prevSpeed, Num(0))
                    /\ JsGt(MathAbs(JsSub(speed, prevSpeed)), JsMul(prevSpeed, Q(1, 10)))
            IN  Varies(getValue(fixedData[j], "enhanced_speed"),
                       getValue(fixedData[j - 1], "enhanced_speed"))
        hrVaries(j) ==
            LET Varies(hr, prevHr) ==
                    /\ hr.k # "undef" /\ prevHr.k # "undef"
                    /\ JsGt(MathAbs(JsSub(hr, prevHr)), Num(10))
            IN  Varies(getValue(fixedData[j], "heart_rate"),
                       getValue(fixedData[j - 1], "heart_rate"))
        nearby == IndexRange(Max2(1, centerIndex - 10), Min2(totalPoints, centerIndex + 9))
        AvgSpeed(speeds, currentSpeed) ==
            IF Len(speeds) > 0 THEN JsDiv(SumSeq(speeds), Num(Len(speeds)))
            ELSE IF Truthy(currentSpeed) THEN currentSpeed ELSE Num(0)
        Phase(speedVariations, hrVariations, variationThreshold, currentSpeed) ==
            IF \/ JsGt(Num(speedVariations), variationThreshold)
               \/ JsGt(Num(hrVariations), variationThreshold)
            THEN IF /\ Truthy(currentSpeed)
                    /\ JsGt(currentSpeed,
                            JsMul(AvgSpeed(SelectDefined(
                                               [j \in 1..Len(nearby) |->
                                                   getValue(fixedData[nearby[j]],
                                                            "enhanced_speed")]),
                                           currentSpeed),
                                  Q(11, 10)))
                 THEN "interval" ELSE "recovery"
            ELSE "main"
    IN  IF ~options.contextualAwareness THEN "main"
        ELSE IF 20 * (centerIndex - 1) < 3 * totalPoints THEN "warmup"
        ELSE IF 20 * (centerIndex - 1) > 17 * totalPoints THEN "cooldown"
        ELSE Phase(Cardinality({j \in scanned : speedVaries(j)}),
                   Cardinality({j \in scanned : hrVaries(j)}),
                   JsMul(Num(windowSize), Q(3, 10)),
                   getValue(fixedData[centerIndex], "enhanced_speed"))

\* the window indices around centerIndex, the centre left out
WindowIndices(fixedData, centerIndex, windowSize) ==
    LET all == IndexRange(Max2(1, centerIndex - windowSize),
                          Min2(Len(fixedData), centerIndex + windowSize))
    IN  SelectSeq(all, LAMBDA j : j # centerIndex)

\* least-squares slope of the values against their position
RECURSIVE SlopeSums(_, _, _, _)
SlopeSums(values, k, meanIndex, averageValue) ==
    IF k > Len(values) THEN [numerator |-> Num(0), denominator |-> Num(0)]
    ELSE LET Add(rest, indexDiff, valueDiff) ==
                [numerator |-> JsAdd(JsMul(indexDiff, valueDiff), rest.numerator),
                 denominator |-> JsAdd(JsMul(indexDiff, indexDiff), rest.denominator)]
         IN  Add(SlopeSums(values, k + 1, meanIndex, averageValue),
                 JsSub(Num(k - 1), meanIndex),
                 JsSub(values[k], averageValue))

TrendDirection(validValues, averageValue) ==
    LET n == Len(validValues)
        Slope(sums) == IF sums.denominator.n # 0
                       THEN JsDiv(sums.numerator, sums.denominator) ELSE Num(0)
        TrendStrength(slope) ==
            IF JsGt(averageValue, Num(0))
            THEN JsMul(JsDiv(MathAbs(slope), averageValue), Num(100))
            ELSE Num(0)
        Direction(slope) ==
            IF n >= 4 /\ JsGt(TrendStrength(slope), Num(5))
            THEN IF JsGt(slope, Num(0)) THEN "up" ELSE "down"
            ELSE "stable"
    IN  Direction(Slope(SlopeSums(validValues, 1, Q(n - 1, 2), averageValue)))

\* enhancedAnalyzeWindow(centerIndex, fieldName, minValidValue)
enhancedAnalyzeWindow(fixedData, centerIndex, fieldName, minValidValue, options) ==
    LET windowSize == options.analysisWindowSize
        qualifies(j) ==
            LET Both(value, speed) ==
                    /\ value.k # "undef" /\ JsGe(value, Num(minValidValue))
                    /\ speed.k # "undef" /\ JsGt(speed, Num(0))
            IN  Both(getValue(fixedData[j], fieldName),
                     getValue(fixedData[j], "enhanced_speed"))
        ahead == IndexRange(centerIndex + 1,
                            Min2(Len(fixedData), centerIndex + windowSize))
        recovers(j) ==
            LET Recovered(value) ==
                    value.k # "undef" /\ JsGe(value, JsMul(Num(minValidValue), Q(3, 2)))
            IN  Recovered(getValue(fixedData[j], fieldName))
        StandardDeviation(variance) ==
            IF variance.k = "num" THEN MathSqrt(variance) ELSE NaN
        IntensityLevel(avgSpeed) ==
            IF JsLt(avgSpeed, Num(5)) THEN "low"
            ELSE IF JsLt(avgSpeed, Num(10)) THEN "medium" ELSE "high"
        Analysis(validValues, speedValues, count, averageValue) ==
            [validValues |-> validValues,
             averageValue |-> averageValue,
             medianValue |->
                IF count > 0 THEN SortAscending(validValues)[(count \div 2) + 1]
                ELSE averageValue,
             isConsistentlyLow |->
                IF count > 0
                THEN JsGt(Num(Len(SelectSeq(validValues,
                                            LAMBDA v : JsLt(v, Num(minValidValue * 2))))),
                          JsMul(Num(count), Q(3, 5)))
                ELSE FALSE,
             hasRecovery |-> Len(SelectSeq(ahead, recovers)) > 0,
             trendDirection |-> TrendDirection(validValues, averageValue),
             standardDeviation |->
                StandardDeviation(
                    IF count > 1
                    THEN JsDiv(SumSqDev(validValues, averageValue), Num(count - 1))
                    ELSE Num(0)),
             confidenceLevel |->
                MathMin(Num(1),
                        JsDiv(Num(count),
                              MathMax(Num(1), JsMul(Num(windowSize), Q(4, 5))))),
             correlationWithSpeed |->
                IF options.multiFieldCorrelation /\ count >= 3
                THEN calculateCorrelation(validValues, speedValues) ELSE Num(0),
             workoutPhase |-> detectWorkoutPhase(fixedData, centerIndex, options),
             intensityLevel |->
                IntensityLevel(IF count > 0 THEN JsDiv(SumSeq(speedValues), Num(count))
                               ELSE Num(0))]
        Averaged(validValues, speedValues) ==
            Analysis(validValues, speedValues, Len(validValues),
                     IF Len(validValues) > 0
                     THEN JsDiv(SumSeq(validValues), Num(Len(validValues)))
                     ELSE Num(minValidValue * 2))
        Collected(kept) ==
            Averaged([j \in 1..Len(kept) |-> getValue(fixedData[kept[j]], fieldName)],
                     [j \in 1..Len(kept) |->
                        getValue(fixedData[kept[j]], "enhanced_speed")])
    IN  Collected(SelectSeq(WindowIndices(fixedData, centerIndex, windowSize), qualifies))

\* getAdaptiveThresholds(analysis, fieldName)
getAdaptiveThresholds(analysis, fieldName, options) ==
    LET baseDropThreshold == IF fieldName = "stroke rate" THEN options.maxStrokeRateDrop
                             ELSE options.maxWattDrop
        baseMinValue == IF fieldName = "stroke rate" THEN options.minValidStrokeRate
                        ELSE options.minValidWatt
        phaseDrop == CASE analysis.workoutPhase \in {"warmup", "cooldown"} -> Q(13, 10)
                       [] analysis.workoutPhase = "interval" -> Q(7, 10)
                       [] analysis.workoutPhase = "recovery" -> Q(12, 10)
                       [] OTHER -> Num(1)
        phaseMin == CASE analysis.workoutPhase \in {"warmup", "cooldown"} -> Q(7, 10)
                      [] analysis.workoutPhase = "interval" -> Q(12, 10)
                      [] analysis.workoutPhase = "recovery" -> Q(8, 10)
                      [] OTHER -> Num(1)
        intensityDrop == CASE analysis.intensityLevel = "high" -> Q(8, 10)
                           [] analysis.intensityLevel = "low" -> Q(12, 10)
                           [] OTHER -> Num(1)
        intensityMin == CASE analysis.intensityLevel = "high" -> Q(13, 10)
                          [] analysis.intensityLevel = "low" -> Q(8, 10)
                          [] OTHER -> Num(1)
        confidenceDrop == IF JsLt(analysis.confidenceLevel, Q(1, 2)) THEN Q(11, 10)
                          ELSE Num(1)
        dropMultiplier == JsMul(JsMul(phaseDrop, intensityDrop), confidenceDrop)
        minValueMultiplier == JsMul(phaseMin, intensityMin)
    IN  IF ~options.adaptiveThresholds
        THEN [dropThreshold |-> Num(baseDropThreshold), minValue |-> Num(baseMinValue)]
        ELSE [dropThreshold |-> JsMul(Num(baseDropThreshold), dropMultiplier),
              minValue |-> JsMul(Num(baseMinValue), minValueMultiplier)]

\* calculateAdvancedReplacement(centerIndex, fieldName, currentValue, analysis)
calculateAdvancedReplacement(fixedData, centerIndex, fieldName, analysis, options) ==
    LET moving(j) ==
            LET Moves(speed) == speed.k # "undef" /\ JsGt(speed, Num(0))
            IN  Moves(getValue(fixedData[j], "enhanced_speed"))
        SpeedValues(movingIdx) ==
            [j \in 1..Len(movingIdx) |->
                getValue(fixedData[movingIdx[j]], "enhanced_speed")]
        AvgSpeed(speedValues, currentSpeed) ==
            IF Len(speedValues) > 0
            THEN JsDiv(SumSeq(speedValues), Num(Len(speedValues)))
            ELSE currentSpeed
        base == analysis.medianValue
        Correlated(currentSpeed, avgSpeed) ==
            IF /\ options.multiFieldCorrelation
               /\ JsGt(MathAbs(analysis.correlationWithSpeed), Q(3, 10))
               /\ Truthy(currentSpeed)
               /\ JsGt(avgSpeed, Num(0))
            THEN JsAdd(JsMul(base, Q(7, 10)),
                       JsMul(JsMul(JsMul(analysis.averageValue,
                                         JsDiv(currentSpeed, avgSpeed)),
                                   MathAbs(analysis.correlationWithSpeed)),
                             Q(3, 10)))
            ELSE base
        AtSpeed(currentSpeed) ==
            Correlated(currentSpeed,
                       AvgSpeed(SpeedValues(
                                    SelectSeq(WindowIndices(fixedData, centerIndex,
                                                            options.analysisWindowSize),
                                              moving)),
                                currentSpeed))
        Smoothed(correlated, prevValue, nextValue, smoothingWeight) ==
            IF options.temporalSmoothing /\ prevValue.k # "undef" /\ nextValue.k # "undef"
            THEN JsAdd(JsMul(correlated, JsSub(Num(1), smoothingWeight)),
                       JsMul(JsDiv(JsAdd(prevValue, nextValue), Num(2)), smoothingWeight))
            ELSE correlated
        Phased(smoothed) ==
            CASE analysis.workoutPhase = "interval" -> JsMul(smoothed, Q(11, 10))
              [] analysis.workoutPhase = "recovery" -> JsMul(smoothed, Q(9, 10))
              [] OTHER -> smoothed
    IN  RoundOneDecimal(
            MathMax(Phased(Smoothed(
                               AtSpeed(getValue(fixedData[centerIndex], "enhanced_speed")),
                               IF centerIndex > 1
                               THEN getValue(fixedData[centerIndex - 1], fieldName)
                               ELSE Undef,
                               IF centerIndex < Len(fixedData)
                               THEN getValue(fixedData[centerIndex + 1], fieldName)
                               ELSE Undef,
                               MathMin(Q(2, 5), analysis.confidenceLevel))),
                    getAdaptiveThresholds(analysis, fieldName, options).minValue))

----------------------------------------------------------------------------
(* fixSensorNoise, contextual version: the main loop and the statistics.   *)

Phases == {"warmup", "main", "cooldown", "interval", "recovery"}

\* the run so far: working copy, counters, and whether the point in hand was fixed
StartOfRun(dataPoints) ==
    [fixedData |-> SpreadCopy(dataPoints),
     noisyPoints |-> 0,
     fixedFields |-> [f \in {"stroke rate", "watt"} |-> 0],
     phaseAnalysis |-> [ph \in Phases |-> 0],
     pointWasFixed |-> FALSE]

\* one field of the point at index i: analysis, drop test and, on a drop, the fix
FixField(st, i, fieldName, options) ==
    LET currentPoint == st.fixedData[i]
        minValid == IF fieldName = "stroke rate" THEN options.minValidStrokeRate
                    ELSE options.minValidWatt
        \* stroke rate counts its phase; watt counts it only "if (!pointWasFixed)",
        \* tested after pointWasFixed has been set
        countsPhase == fieldName = "stroke rate"
        Fixed(analysis) ==
            [st EXCEPT
                !.fixedData[i] =
                    setValue(currentPoint, fieldName,
                             calculateAdvancedReplacement(st.fixedData, i, fieldName,
                                                          analysis, options)),
                !.pointWasFixed = TRUE,
                !.fixedFields[fieldName] = @ + 1,
                !.phaseAnalysis[analysis.workoutPhase] =
                    IF countsPhase THEN @ + 1 ELSE @]
        IsDrop(current, prev, thresholds) ==
            \/ JsGt(JsMul(JsDiv(JsSub(prev, current), prev), Num(100)),
                    thresholds.dropThreshold)
            \/ /\ JsLt(current, thresholds.minValue)
               /\ JsGt(prev, thresholds.minValue)
        Analysed(current, prev, analysis) ==
            IF IsDrop(current, prev, getAdaptiveThresholds(analysis, fieldName, options))
            THEN Fixed(analysis)
            ELSE st
        Compared(current, prev) ==
            IF current.k = "undef" \/ prev.k = "undef" \/ ~JsGt(prev, Num(0)) THEN st
            ELSE Analysed(current, prev,
                          enhancedAnalyzeWindow(st.fixedData, i, fieldName, minValid,
                                                options))
    IN  Compared(getValue(currentPoint, fieldName),
                 getValue(st.fixedData[i - 1], fieldName))

\* the precondition with the stability test left out
SpeedAdmitsUnstable(fixedData, i, options) ==
    LET Admits(currentSpeed, prevSpeed) ==
            Truthy(currentSpeed) /\ Truthy(prevSpeed) /\ JsGt(currentSpeed, Num(1))
    IN  Admits(getValue(fixedData[i], "enhanced_speed"),
               getValue(fixedData[i - 1], "enhanced_speed"))

\* whether the reference admits a correction at index i (i >= 2)
SpeedAdmits(fixedData, i, options) ==
    LET SpeedVariation(currentSpeed, prevSpeed) ==
            MathAbs(JsMul(JsDiv(JsSub(currentSpeed, prevSpeed), prevSpeed), Num(100)))
        Admits(currentSpeed, prevSpeed) ==
            /\ Truthy(currentSpeed) /\ Truthy(prevSpeed)
            /\ JsLe(SpeedVariation(currentSpeed, prevSpeed),
                    Num(options.speedStabilityThreshold))
            /\ JsGt(currentSpeed, Num(1))
    IN  Admits(getValue(fixedData[i], "enhanced_speed"),
               getValue(fixedData[i - 1], "enhanced_speed"))

\* one iteration of the main loop
FixPoint(st, i, options) ==
    LET start == [st EXCEPT !.pointWasFixed = FALSE]
        Counted(afterWatt) ==
            IF afterWatt.pointWasFixed
            THEN [afterWatt EXCEPT !.noisyPoints = @ + 1]
            ELSE afterWatt
    IN  IF ~SpeedAdmits(st.fixedData, i, options) THEN start
        ELSE Counted(FixField(FixField(start, i, "stroke rate", options),
                              i, "watt", options))

RECURSIVE FixLoop(_, _, _)
FixLoop(st, i, options) ==
    IF i > Len(st.fixedData) THEN st
    ELSE FixLoop(FixPoint(st, i, options), i + 1, options)

\* fixSensorNoise(dataPoints, options): { fixedData, stats }
fixSensorNoise(dataPoints, options) ==
    LET Finished(final, total) ==
            [fixedData |-> final.fixedData,
             stats |->
                [totalPoints |-> total,
                 noisyPoints |-> final.noisyPoints,
                 fixedFields |-> final.fixedFields,
                 qualityScore |->
                    MathMax(Num(0),
                            JsSub(Num(100),
                                  JsMul(JsDiv(Num(final.noisyPoints), Num(total)),
                                        Num(100)))),
                 phaseAnalysis |-> final.phaseAnalysis]]
        Run(final) == Finished(final, Len(final.fixedData))
    IN  Run(FixLoop(StartOfRun(dataPoints), 2, options))

----------------------------------------------------------------------------
(* fixSensorNoise, windowed and simple versions.  Both read a field under  *)
(* five spellings and give up at the first spelling present when it does   *)
(* not hold a number.                                                      *)

ToLowerCase(name) ==                \* fieldBase.toLowerCase()
    CASE name = "STROKE RATE" -> "stroke rate"
      [] name = "STROKE_RATE" -> "stroke_rate"
      [] name = "ENHANCED_SPEED" -> "enhanced_speed"
      [] name = "WATT" -> "watt"
      [] OTHER -> name

FiveVariations(fieldBase) ==
    <<fieldBase, SpaceToUnderscore(fieldBase), UnderscoreToSpace(fieldBase),
      ToLowerCase(fieldBase), ToUpperCase(fieldBase)>>

RECURSIVE GetFirstPresent(_, _, _)
GetFirstPresent(point, variations, v) ==
    IF v > Len(variations) THEN Undef
    ELSE IF Has(point, variations[v])
         THEN (IF IsNumber(Get(point, variations[v]))
               THEN Get(point, variations[v]) ELSE Undef)
         ELSE GetFirstPresent(point, variations, v + 1)

getValueFirstPresent(point, fieldBase) ==
    GetFirstPresent(point, FiveVariations(fieldBase), 1)

setValueFirstPresent(point, fieldBase, value) ==
    SetValueFrom(point, fieldBase, FiveVariations(fieldBase), 1, value)

\* the reference admits a correction at index i (i >= 2); both versions
SpeedAdmitsFloored(fixedData, i, options) ==
    LET SpeedVariation(currentSpeed, prevSpeed) ==
            MathAbs(JsMul(JsDiv(JsSub(currentSpeed, prevSpeed),
                                MathMax(prevSpeed, Q(1, 100))), Num(100)))
        Admits(currentSpeed, prevSpeed) ==
            /\ currentSpeed.k # "undef" /\ prevSpeed.k # "undef"
            /\ JsLe(SpeedVariation(currentSpeed, prevSpeed),
                    Num(options.speedStabilityThreshold))
            /\ JsGt(currentSpeed, Num(1))
    IN  Admits(getValueFirstPresent(fixedData[i], "enhanced_speed"),
               getValueFirstPresent(fixedData[i - 1], "enhanced_speed"))

\* the drop test of both versions on one field of the point at index i
IsNoisyDrop(fixedData, i, fieldName, maxDrop, minValid) ==
    LET Drops(current, prev) ==
            /\ current.k # "undef" /\ prev.k # "undef" /\ JsGt(prev, Num(0))
            /\ \/ JsGt(JsMul(JsDiv(JsSub(prev, current), prev), Num(100)), Num(maxDrop))
               \/ JsLt(current, Num(minValid)) /\ JsGt(prev, Num(minValid))
    IN  Drops(getValueFirstPresent(fixedData[i], fieldName),
              getValueFirstPresent(fixedData[i - 1], fieldName))

MaxDropOf(fieldName, options) ==
    IF fieldName = "stroke rate" THEN options.maxStrokeRateDrop ELSE options.maxWattDrop

MinValidOf(fieldName, options) ==
    IF fieldName = "stroke rate" THEN options.minValidStrokeRate ELSE options.minValidWatt

\* simple version: the previous value, or its mean with a reasonable next value
SuggestedValue(fixedData, i, fieldName, minValid) ==
    LET Suggested(prev, next) ==
            IF i < Len(fixedData) /\ next.k # "undef" /\ JsGt(next, Num(minValid))
            THEN JsDiv(JsAdd(prev, next), Num(2))
            ELSE prev
    IN  Suggested(getValueFirstPresent(fixedData[i - 1], fieldName),
                  IF i < Len(fixedData)
                  THEN getValueFirstPresent(fixedData[i + 1], fieldName) ELSE Undef)

SimpleStart(dataPoints) ==
    [fixedData |-> SpreadCopy(dataPoints), noisyPoints |-> 0,
     fixedFields |-> [f \in {"stroke rate", "watt"} |-> 0], pointWasFixed |-> FALSE]

SimpleField(st, i, fieldName, options) ==
    IF ~IsNoisyDrop(st.fixedData, i, fieldName, MaxDropOf(fieldName, options),
                    MinValidOf(fieldName, options)) THEN st
    ELSE [st EXCEPT
            !.fixedData[i] =
                setValueFirstPresent(st.fixedData[i], fieldName,
                    SuggestedValue(st.fixedData, i, fieldName,
                                   MinValidOf(fieldName, options))),
            !.pointWasFixed = TRUE,
            !.fixedFields[fieldName] = @ + 1]

SimplePoint(st, i, options) ==
    LET start == [st EXCEPT !.pointWasFixed = FALSE]
        Counted(after) ==
            IF after.pointWasFixed THEN [after EXCEPT !.noisyPoints = @ + 1] ELSE after
    IN  IF ~SpeedAdmitsFloored(st.fixedData, i, options) THEN start
        ELSE Counted(SimpleField(SimpleField(start, i, "stroke rate", options),
                                 i, "watt", options))

RECURSIVE SimpleLoop(_, _, _)
SimpleLoop(st, i, options) ==
    IF i > Len(st.fixedData) THEN st
    ELSE SimpleLoop(SimplePoint(st, i, options), i + 1, options)

fixSensorNoiseSimple(dataPoints, options) ==
    LET Finished(final) ==
            [fixedData |-> final.fixedData,
             stats |-> [totalPoints |-> Len(final.fixedData),
                        noisyPoints |-> final.noisyPoints,
                        fixedFields |-> final.fixedFields]]
    IN  Finished(SimpleLoop(SimpleStart(dataPoints), 2, options))

\* windowed version: the values of the field around centerIndex that reach a floor
RECURSIVE ValuesFrom(_, _, _, _)
ValuesFrom(fixedData, indices, fieldName, floor) ==
    IF Len(indices) = 0 THEN <<>>
    ELSE LET Kept(value, rest) ==
                IF value.k # "undef" /\ JsGe(value, floor) THEN <<value>> \o rest
                ELSE rest
         IN  Kept(getValueFirstPresent(fixedData[indices[1]], fieldName),
                  ValuesFrom(fixedData, Tail(indices), fieldName, floor))

\* trend of the windowed version: second half against first half, in percent
HalvesTrend(validValues) ==
    LET n == Len(validValues)
        Average(half) == JsDiv(SumSeq(half), Num(Len(half)))
        TrendChange(firstAvg, secondAvg) ==
            JsMul(JsDiv(JsSub(secondAvg, firstAvg), firstAvg), Num(100))
        Direction(trendChange) ==
            IF JsGt(trendChange, Num(10)) THEN "up"
            ELSE IF JsLt(trendChange, Num(-10)) THEN "down"
            ELSE "stable"
    IN  IF n < 3 THEN "stable"
        ELSE Direction(TrendChange(Average(SubSeq(validValues, 1, n \div 2)),
                                   Average(SubSeq(validValues, (n + 1) \div 2 + 1, n))))

analyzeWindow(fixedData, centerIndex, fieldName, minValidValue, options) ==
    LET windowSize == options.analysisWindowSize
        Median(sortedValues) == sortedValues[Len(sortedValues) \div 2 + 1]
        Analysis(validValues) ==
            IF Len(validValues) = 0
            THEN [validValues |-> <<>>, averageValue |-> Num(0), medianValue |-> Num(0),
                  isConsistentlyLow |-> TRUE, hasRecovery |-> FALSE,
                  trendDirection |-> "stable"]
            ELSE [validValues |-> validValues,
                  averageValue |-> JsDiv(SumSeq(validValues), Num(Len(validValues))),
                  medianValue |-> Median(SortAscending(validValues)),
                  isConsistentlyLow |->
                    5 * Len(SelectSeq(validValues,
                                      LAMBDA v : JsLt(v, Num(minValidValue * 2))))
                        > 3 * Len(validValues),
                  hasRecovery |->
                    Len(ValuesFrom(fixedData,
                                   IndexRange(centerIndex + 1,
                                              Min2(Len(fixedData),
                                                   centerIndex + windowSize)),
                                   fieldName, Q(minValidValue * 3, 2))) > 0,
                  trendDirection |-> HalvesTrend(validValues)]
    IN  Analysis(ValuesFrom(fixedData, WindowIndices(fixedData, centerIndex, windowSize),
                            fieldName, Num(minValidValue)))

calculateReplacementValue(fixedData, centerIndex, fieldName, minValidValue, windowAnalysis, options) ==
    LET w == windowAnalysis
        minValid == Num(minValidValue)
        based ==
            IF w.hasRecovery /\ w.trendDirection = "up"
            THEN MathMax(w.averageValue, w.medianValue)
            ELSE IF w.trendDirection = "down"
            THEN MathMin(w.averageValue, w.medianValue)
            ELSE JsAdd(JsMul(w.averageValue, Q(3, 5)), JsMul(w.medianValue, Q(2, 5)))
        WithPrev(prevValue) ==
            IF prevValue.k # "undef" /\ JsGe(prevValue, minValid)
            THEN JsAdd(JsMul(based, Q(7, 10)), JsMul(prevValue, Q(3, 10)))
            ELSE based
        WithNext(withPrev, nextValue) ==
            IF nextValue.k # "undef" /\ JsGe(nextValue, minValid) /\ ~w.hasRecovery
            THEN JsAdd(JsMul(withPrev, Q(4, 5)), JsMul(nextValue, Q(1, 5)))
            ELSE withPrev
        Capped(floored, prevValue) ==
            IF prevValue.k # "undef" /\ JsGt(prevValue, Num(0))
            THEN MathMin(floored, JsMul(prevValue, Num(2)))
            ELSE floored
        Replacement(prevValue, nextValue) ==
            IF Len(w.validValues) = 0
            THEN (IF Truthy(prevValue) /\ JsGe(prevValue, minValid)
                  THEN prevValue ELSE Num(minValidValue * 2))
            ELSE RoundOneDecimal(
                    Capped(MathMax(IF Len(w.validValues) >= options.minValidPointsInWindow
                                   THEN WithNext(WithPrev(prevValue), nextValue)
                                   ELSE w.medianValue,
                                   minValid),
                           prevValue))
    IN  Replacement(IF centerIndex > 1
                    THEN getValueFirstPresent(fixedData[centerIndex - 1], fieldName)
                    ELSE Undef,
                    IF centerIndex < Len(fixedData)
                    THEN getValueFirstPresent(fixedData[centerIndex + 1], fieldName)
                    ELSE Undef)

WindowedField(st, i, fieldName, options) ==
    LET minValid == MinValidOf(fieldName, options)
        Replaced(windowAnalysis) ==
            calculateReplacementValue(st.fixedData, i, fieldName, minValid,
                                      windowAnalysis, options)
    IN  IF ~IsNoisyDrop(st.fixedData, i, fieldName, MaxDropOf(fieldName, options),
                        minValid) THEN st
        ELSE [st EXCEPT
                !.fixedData[i] =
                    setValueFirstPresent(
                        st.fixedData[i], fieldName,
                        Replaced(analyzeWindow(st.fixedData, i, fieldName, minValid,
                                               options))),
                !.pointWasFixed = TRUE,
                !.fixedFields[fieldName] = @ + 1]

WindowedPoint(st, i, options) ==
    LET start == [st EXCEPT !.pointWasFixed = FALSE]
        Counted(after) ==
            IF after.pointWasFixed THEN [after EXCEPT !.noisyPoints = @ + 1] ELSE after
    IN  IF ~SpeedAdmitsFloored(st.fixedData, i, options) THEN start
        ELSE Counted(WindowedField(WindowedField(start, i, "stroke rate", options),
                                   i, "watt", options))

RECURSIVE WindowedLoop(_, _, _)
WindowedLoop(st, i, options) ==
    IF i > Len(st.fixedData) THEN st
    ELSE WindowedLoop(WindowedPoint(st, i, options), i + 1, options)

fixSensorNoiseWindowed(dataPoints, options) ==
    LET Finished(final) ==
            [fixedData |-> final.fixedData,
             stats |-> [totalPoints |-> Len(final.fixedData),
                        noisyPoints |-> final.noisyPoints,
                        fixedFields |-> final.fixedFields]]
    IN  Finished(WindowedLoop(SimpleStart(dataPoints), 2, options))

----------------------------------------------------------------------------
(* Zone distribution: calculateZoneDistribution(timeSeries, zones).  A     *)
(* point is [timer_time, value], a zone is [min, max, name].               *)

\* zones.forEach over one point: its duration goes to every zone holding its value
RECURSIVE AddToZones(_, _, _, _, _)
AddToZones(zoneTime, zoneTable, z, value, currentDuration) ==
    IF z > Len(zoneTable) THEN zoneTime
    ELSE LET zone == zoneTable[z]
             started == IF ~Truthy(Get(zoneTime, zone.name))
                        THEN Put(zoneTime, zone.name, Num(0)) ELSE zoneTime
             added == Put(started, zone.name,
                          JsAdd(Get(started, zone.name), currentDuration))
         IN  IF JsGe(value, zone.min) /\ JsLe(value, zone.max)
             THEN AddToZones(added, zoneTable, z + 1, value, currentDuration)
             ELSE AddToZones(zoneTime, zoneTable, z + 1, value, currentDuration)

\* timeSeries.forEach: previousDuration starts at 0 and follows timer_time
RECURSIVE WalkSeries(_, _, _, _, _)
WalkSeries(zoneTime, timeSeries, k, previousDuration, zoneTable) ==
    IF k > Len(timeSeries) THEN zoneTime
    ELSE LET point == timeSeries[k]
             currentDuration == JsSub(point.timer_time, previousDuration)
         IN  WalkSeries(AddToZones(zoneTime, zoneTable, 1, point.value, currentDuration),
                        timeSeries, k + 1, point.timer_time, zoneTable)

\* zones.find(zone => zone.name === zoneName)
RECURSIVE FindZone(_, _, _)
FindZone(zoneTable, zoneName, z) ==
    IF zoneTable[z].name = zoneName THEN zoneTable[z]
    ELSE FindZone(zoneTable, zoneName, z + 1)

\* the items, or the TypeError of reading timer_time of timeSeries[-1]
calculateZoneDistribution(timeSeries, zoneTable) ==
    LET zoneTime == WalkSeries(<<>>, timeSeries, 1, Num(0), zoneTable)
        totalDuration == JsSub(timeSeries[Len(timeSeries)].timer_time,
                               timeSeries[1].timer_time)
        item(z) ==
            LET zoneName == zoneTable[z].name
                duration == IF Truthy(Get(zoneTime, zoneName))
                            THEN Get(zoneTime, zoneName) ELSE Num(0)
            IN  [zone |-> FindZone(zoneTable, zoneName, 1),
                 duration |-> duration,
                 percentage |-> JsMul(JsDiv(duration, totalDuration), Num(100))]
    IN  IF Len(timeSeries) = 0
        THEN [threw |-> TRUE, items |-> <<>>]
        ELSE [threw |-> FALSE, items |-> [z \in 1..Len(zoneTable) |-> item(z)]]

----------------------------------------------------------------------------
(* The caller's data.  A record array of up to MaxLen decoded records; each *)
(* record holds the elapsed time, the reference speed and the two noisy    *)
(* fields, with the values a decoder hands over: plain readings, dropouts, *)
(* zeros, null, a key left out, and NaN.                                   *)

MaxLen == 3

Absent == Undef     \* the key is not on the record

\* <<enhanced_speed, watt, stroke_rate>>
Shapes ==
    { <<Num(8), Num(100), Num(60)>>,      \* steady paddling
      <<Num(8), Num(4), Num(60)>>,        \* watt dropout at steady speed
      <<Num(9), Num(1), Num(4)>>,         \* both fields drop, speed a little up
      <<Num(8), Num(12), Num(20)>>,       \* low but plausible readings
      <<Num(8), Num(0), Num(60)>>,        \* watt reads zero while moving
      <<Num(0), Num(0), Num(0)>>,         \* stationary
      <<Num(2), Num(100), Num(60)>>,      \* speed changes sharply
      <<NaN, Num(100), Num(60)>>,         \* speed not a number
      <<Num(8), Null, Absent>>,           \* watt null, stroke rate missing
      <<Absent, Num(4), Num(60)>> }       \* no speed on the record

MakeRecord(shape, position) ==
    LET all == [key \in {"timer_time", "enhanced_speed", "watt", "stroke_rate"} |->
                    CASE key = "timer_time" -> Num(position - 1)
                      [] key = "enhanced_speed" -> shape[1]
                      [] key = "watt" -> shape[2]
                      [] OTHER -> shape[3]]
    IN  [key \in {x \in DOMAIN all : all[x].k # "undef"} |-> all[key]]

Inputs ==
    UNION { { [i \in 1..n |-> MakeRecord(shapes[i], i)] : shapes \in [1..n -> Shapes] }
            : n \in 0..MaxLen }

\* references are positions in the object store
Deref(h, refs) == [k \in 1..Len(refs) |-> h[refs[k]]]

\* the working copy made without copying: const cleanedData = data
AllocateAlias(h, refs) == refs

\* the working copy is made of new objects
AllocateCopy(h, refs) == [k \in 1..Len(refs) |-> Len(h) + k]

\* the store after the working copy's records have been written
Store(h, refs, records) ==
    LET top == IF Len(refs) > 0 /\ refs[Len(refs)] > Len(h) THEN refs[Len(refs)]
               ELSE Len(h)
    IN  [r \in 1..top |->
            IF \E k \in 1..Len(refs) : refs[k] = r
            THEN records[CHOOSE k \in 1..Len(refs) : refs[k] = r]
            ELSE h[r]]

Methods == {"threshold", "movingAverage", "correlation", "kalman", "auto"}

NoCall == [op |-> "none", options |-> <<>>]
NoStats == <<>>

Init ==
    /\ \E data \in Inputs :
        /\ heap = data
        /\ input = [k \in 1..Len(data) |-> k]
        /\ orig = data
    /\ showFilteredData = TRUE
    /\ filterMethod = "auto"
    /\ originalData = <<>>
    /\ call = NoCall
    /\ result = <<>>
    /\ stats = NoStats
    /\ series = <<>>
    /\ zones = <<>>
    /\ zoneOut = <<>>

----------------------------------------------------------------------------
(* Operations.  Each call reads the caller's array, builds its working     *)
(* copy out of new objects, runs to completion and returns.                *)

\* option objects callers pass to filterSensorData: everything but the method
\* left out, or everything given
FilterOptions ==
    { [method |-> m, fields |-> <<>>, referenceField |-> "",
       dropThreshold |-> Q(0, 1), windowSize |-> 0] : m \in Methods \cup {"smooth"} }
    \cup
    { [method |-> m, fields |-> <<"watt">>, referenceField |-> "enhanced_speed",
       dropThreshold |-> Q(1, 5), windowSize |-> 15] : m \in Methods \cup {"smooth"} }

\* option objects callers pass to fixSensorNoise, merged over the defaults
NoiseOptions ==
    { defaultOptions,
      [defaultOptions EXCEPT !.speedStabilityThreshold = 80, !.minValidPointsInWindow = 1] }

\* a strategy has run on the caller's array and returned its working copy
Returned(op, options, records, statistics) ==
    LET working == AllocateCopy(heap, input)
    IN  /\ heap' = Store(heap, working, records)
        /\ result' = working
        /\ call' = [op |-> op, options |-> options]
        /\ stats' = statistics

FilterSensorData(options) ==
    /\ call.op = "none"
    /\ Returned("filterSensorData", options,
                filterSensorData(Deref(heap, input), options), NoStats)
    /\ UNCHANGED <<input, orig, showFilteredData, filterMethod, originalData,
                   series, zones, zoneOut>>

FixSensorNoise(options) ==
    /\ call.op = "none"
    /\ LET Return(fixed) ==
               Returned("fixSensorNoise", options, fixed.fixedData, fixed.stats)
       IN  Return(fixSensorNoise(Deref(heap, input), options))
    /\ UNCHANGED <<input, orig, showFilteredData, filterMethod, originalData,
                   series, zones, zoneOut>>

FixSensorNoiseWindowed(options) ==
    /\ call.op = "none"
    /\ LET Return(fixed) ==
               Returned("fixSensorNoiseWindowed", options, fixed.fixedData, fixed.stats)
       IN  Return(fixSensorNoiseWindowed(Deref(heap, input), options))
    /\ UNCHANGED <<input, orig, showFilteredData, filterMethod, originalData,
                   series, zones, zoneOut>>

FixSensorNoiseSimple(options) ==
    /\ call.op = "none"
    /\ LET Return(fixed) ==
               Returned("fixSensorNoiseSimple", options, fixed.fixedData, fixed.stats)
       IN  Return(fixSensorNoiseSimple(Deref(heap, input), options))
    /\ UNCHANGED <<input, orig, showFilteredData, filterMethod, originalData,
                   series, zones, zoneOut>>

\* useSensorDataFilter: the user picks a method, or switches filtering on or off
SetFilterMethod(m) ==
    /\ call.op = "none"
    /\ filterMethod # m
    /\ filterMethod' = m
    /\ UNCHANGED <<heap, input, orig, showFilteredData, originalData, call, result,
                   stats, series, zones, zoneOut>>

ToggleFilteredData ==
    /\ call.op = "none"
    /\ showFilteredData' = ~showFilteredData
    /\ UNCHANGED <<heap, input, orig, filterMethod, originalData, call, result,
                   stats, series, zones, zoneOut>>

\* the options applyFilter builds
AppliedOptions(method) ==
    [method |-> method, fields |-> defaultFields, referenceField |-> defaultReferenceField,
     dropThreshold |-> Q(1, 5),
     windowSize |-> IF method = "movingAverage" THEN 15 ELSE 30]

\* useSensorDataFilter.applyFilter(data): returns data itself when there is
\* nothing to filter or filtering is off
ApplyFilter ==
    /\ call.op = "none"
    /\ LET data == Deref(heap, input)
           options == AppliedOptions(filterMethod)
       IN  IF Len(input) = 0
           THEN /\ originalData' = <<>>
                /\ result' = input
                /\ heap' = heap
                /\ call' = [op |-> "applyFilter", options |-> <<>>]
                /\ stats' = NoStats
           ELSE /\ originalData' = JsonClone(data)
                /\ IF ~showFilteredData
                   THEN /\ result' = input
                        /\ heap' = heap
                        /\ call' = [op |-> "applyFilter", options |-> <<>>]
                        /\ stats' = NoStats
                   ELSE Returned("applyFilter", options,
                                 filterSensorData(data, options), NoStats)
    /\ UNCHANGED <<input, orig, showFilteredData, filterMethod, series, zones, zoneOut>>

Next ==
    \/ \E options \in FilterOptions : FilterSensorData(options)
    \/ \E options \in NoiseOptions : FixSensorNoise(options)
    \/ \E options \in NoiseOptions : FixSensorNoiseWindowed(options)
    \/ \E options \in NoiseOptions : FixSensorNoiseSimple(options)
    \/ \E m \in Methods : SetFilterMethod(m)
    \/ ToggleFilteredData
    \/ ApplyFilter

Spec == Init /\ [][Next]_vars

----------------------------------------------------------------------------
(* A caller compares the array it filtered with what the filter returned.  *)
(* It may hand over the caller's array or nothing, and the returned array, *)
(* the returned array cut short by one record, or nothing.                 *)

OriginalChoices == {"data", "missing"}
FilteredChoices == {"result", "shortened", "missing"}
FieldChoices == {<<"stroke_rate", "watt">>, <<"watt">>}

OriginalArgument(choice) ==
    IF choice = "missing" THEN NoArray ELSE Array(Deref(heap, input))

FilteredArgument(choice) ==
    CASE choice = "missing" -> NoArray
      [] choice = "shortened" /\ Len(result) > 0 ->
            Array(SubSeq(Deref(heap, result), 1, Len(result) - 1))
      [] OTHER -> Array(Deref(heap, result))

CalculateFilterImprovementMetrics(original, filtered, fields) ==
    /\ call.op = "filterSensorData"
    /\ stats' = calculateFilterImprovementMetrics(OriginalArgument(original),
                                                   FilteredArgument(filtered), fields)
    /\ call' = [op |-> "calculateFilterImprovementMetrics",
                 options |-> [original |-> original, filtered |-> filtered,
                              fields |-> fields]]
    /\ UNCHANGED <<heap, input, orig, showFilteredData, filterMethod, originalData,
                    result, series, zones, zoneOut>>

NextMetrics ==
    \/ \E options \in FilterOptions : FilterSensorData(options)
    \/ \E original \in OriginalChoices, filtered \in FilteredChoices,
           fields \in FieldChoices :
            CalculateFilterImprovementMetrics(original, filtered, fields)

SpecMetrics == Init /\ [][NextMetrics]_vars

----------------------------------------------------------------------------
(* The correlation strategy on its own, on recordings of one steady piece: *)
(* constant speed, one target field holding a constant reading, and one    *)
(* interior record where the reading is lower.                             *)

MaxSteady == 5

SteadySpeeds == {2, 5, 6, 8}
SteadyReadings == {8, 12, 40, 100}
LowReadings == {0, 5, 30}

\* n records of the reading v with the reading d at position i
SteadyWithDrop(n, i, s, v, d, field) ==
    [k \in 1..n |->
        MakeRecord(IF field = "watt"
                   THEN <<Num(s), Num(IF k = i THEN d ELSE v), Absent>>
                   ELSE <<Num(s), Absent, Num(IF k = i THEN d ELSE v)>>, k)]

SteadyOfLength(n) ==
    { SteadyWithDrop(n, i, s, v, d, field) :
        i \in 2..(n - 1), s \in SteadySpeeds,
        v \in SteadyReadings, d \in LowReadings, field \in {"watt", "stroke_rate"} }

SteadyInputs == UNION { SteadyOfLength(n) : n \in 3..MaxSteady }

InitSteady ==
    /\ \E data \in SteadyInputs :
        /\ heap = data
        /\ input = [k \in 1..Len(data) |-> k]
        /\ orig = data
    /\ showFilteredData = TRUE
    /\ filterMethod = "auto"
    /\ originalData = <<>>
    /\ call = NoCall
    /\ result = <<>>
    /\ stats = NoStats
    /\ series = <<>>
    /\ zones = <<>>
    /\ zoneOut = <<>>

CorrelationBasedFiltering(targetFields) ==
    /\ call.op = "none"
    /\ Returned("correlationBasedFiltering", [fields |-> targetFields],
                correlationBasedFiltering(Deref(heap, input), targetFields,
                                          defaultReferenceField, defaultCorrelationWindow),
                NoStats)
    /\ UNCHANGED <<input, orig, showFilteredData, filterMethod, originalData,
                    series, zones, zoneOut>>

NextCorrelation ==
    \E targetFields \in FieldChoices : CorrelationBasedFiltering(targetFields)

SpecCorrelation == InitSteady /\ [][NextCorrelation]_vars

----------------------------------------------------------------------------
(* The threshold strategy on its own, on runs long enough for a dropout    *)
(* that lasts several records: the speed steady, changing or null, the     *)
(* watt reading high, moderate, low, zero or null.                         *)

MaxRun == 4

RunSpeeds == {Num(8), Num(5), Null}
RunReadings == {Num(100), Num(20), Num(4), Num(0), Null}

\* the run of n records with the given speeds and watt readings
RunOf(n, speeds, readings) ==
    [k \in 1..n |-> MakeRecord(<<speeds[k], readings[k], Absent>>, k)]

InitRun ==
    /\ \E n \in 0..MaxRun :
        \E speeds \in [1..n -> RunSpeeds], readings \in [1..n -> RunReadings] :
            /\ heap = RunOf(n, speeds, readings)
            /\ orig = RunOf(n, speeds, readings)
            /\ input = [k \in 1..n |-> k]
    /\ showFilteredData = TRUE
    /\ filterMethod = "auto"
    /\ originalData = <<>>
    /\ call = NoCall
    /\ result = <<>>
    /\ stats = NoStats
    /\ series = <<>>
    /\ zones = <<>>
    /\ zoneOut = <<>>

CleanSensorDataWithThresholds(rateFields) ==
    /\ call.op = "none"
    /\ Returned("cleanSensorDataWithThresholds", [fields |-> rateFields],
                cleanSensorDataWithThresholds(Deref(heap, input), rateFields,
                                              defaultReferenceField),
                NoStats)
    /\ UNCHANGED <<input, orig, showFilteredData, filterMethod, originalData,
                    series, zones, zoneOut>>

NextThreshold ==
    \E rateFields \in FieldChoices : CleanSensorDataWithThresholds(rateFields)

SpecThreshold == InitRun /\ [][NextThreshold]_vars

----------------------------------------------------------------------------
(* The moving-average strategy on its own, on pieces long enough for a     *)
(* window of six values: watt reading steady, zero, a spike or null.       *)

MaxPiece == 6

PieceReadings == {Num(100), Num(0), Num(200), Null}
WindowSizes == {3, 5, 6}

PieceOf(n, readings) ==
    [k \in 1..n |-> MakeRecord(<<Num(8), readings[k], Absent>>, k)]

InitPiece ==
    /\ \E n \in 0..MaxPiece :
        \E readings \in [1..n -> PieceReadings] :
            /\ heap = PieceOf(n, readings)
            /\ orig = PieceOf(n, readings)
            /\ input = [k \in 1..n |-> k]
    /\ showFilteredData = TRUE
    /\ filterMethod = "auto"
    /\ originalData = <<>>
    /\ call = NoCall
    /\ result = <<>>
    /\ stats = NoStats
    /\ series = <<>>
    /\ zones = <<>>
    /\ zoneOut = <<>>

ApplyMovingAverageFilter(fields, windowSize) ==
    /\ call.op = "none"
    /\ Returned("applyMovingAverageFilter",
                [fields |-> fields, windowSize |-> windowSize],
                applyMovingAverageFilter(Deref(heap, input), fields, windowSize),
                NoStats)
    /\ UNCHANGED <<input, orig, showFilteredData, filterMethod, originalData,
                    series, zones, zoneOut>>

NextMoving ==
    \E fields \in FieldChoices, windowSize \in WindowSizes :
        ApplyMovingAverageFilter(fields, windowSize)

SpecMoving == InitPiece /\ [][NextMoving]_vars

----------------------------------------------------------------------------
(* The field accessors on one record.  The record carries a field under    *)
(* any of its spellings, each holding a number, null or a string.          *)

StrokeRateSpellings == {"stroke rate", "stroke_rate", "STROKE RATE"}
WattSpellings == {"watt", "WATT"}
HeldValues == {Num(60), Null, Str(1)}
FieldBases == {"stroke rate", "watt"}
WrittenValues == {Num(70), Num(0)}

PointOf(strokeRate, watt) ==
    [key \in DOMAIN strokeRate \cup DOMAIN watt |->
        IF key \in DOMAIN strokeRate THEN strokeRate[key] ELSE watt[key]]

InitPoint ==
    /\ \E present \in SUBSET StrokeRateSpellings, powered \in SUBSET WattSpellings :
        \E strokeRate \in [present -> HeldValues], watt \in [powered -> HeldValues] :
            /\ heap = <<PointOf(strokeRate, watt)>>
            /\ orig = <<PointOf(strokeRate, watt)>>
    /\ input = <<1>>
    /\ showFilteredData = TRUE
    /\ filterMethod = "auto"
    /\ originalData = <<>>
    /\ call = NoCall
    /\ result = <<>>
    /\ stats = NoStats
    /\ series = <<>>
    /\ zones = <<>>
    /\ zoneOut = <<>>

\* a getValue has returned: the record is as it was
Read(op, fieldBase, value) ==
    /\ call' = [op |-> op, options |-> [fieldBase |-> fieldBase]]
    /\ result' = input
    /\ stats' = [returned |-> value]
    /\ UNCHANGED <<heap, input, orig, showFilteredData, filterMethod, originalData,
                   series, zones, zoneOut>>

\* a setValue has returned: the record was changed in place
Written(op, fieldBase, value, point) ==
    /\ call' = [op |-> op, options |-> [fieldBase |-> fieldBase, value |-> value]]
    /\ heap' = Store(heap, input, <<point>>)
    /\ result' = input
    /\ UNCHANGED <<input, orig, showFilteredData, filterMethod, originalData, stats,
                   series, zones, zoneOut>>

\* getValue of the contextual fixSensorNoise
GetValue(fieldBase) ==
    /\ call.op = "none"
    /\ Read("getValue", fieldBase, getValue(heap[input[1]], fieldBase))

\* getValue of the windowed and of the simple fixSensorNoise
GetValueFirstPresent(fieldBase) ==
    /\ call.op = "none"
    /\ Read("getValueFirstPresent", fieldBase,
            getValueFirstPresent(heap[input[1]], fieldBase))

\* setValue of the contextual fixSensorNoise
SetValue(fieldBase, value) ==
    /\ call.op = "none"
    /\ Written("setValue", fieldBase, value, setValue(heap[input[1]], fieldBase, value))

\* setValue of the windowed and of the simple fixSensorNoise
SetValueFirstPresent(fieldBase, value) ==
    /\ call.op = "none"
    /\ Written("setValueFirstPresent", fieldBase, value,
               setValueFirstPresent(heap[input[1]], fieldBase, value))

NextAccessor ==
    \/ \E fieldBase \in FieldBases : GetValue(fieldBase)
    \/ \E fieldBase \in FieldBases : GetValueFirstPresent(fieldBase)
    \/ \E fieldBase \in FieldBases, value \in WrittenValues : SetValue(fieldBase, value)
    \/ \E fieldBase \in FieldBases, value \in WrittenValues :
            SetValueFirstPresent(fieldBase, value)

SpecAccessor == InitPoint /\ [][NextAccessor]_vars

----------------------------------------------------------------------------
(* The workout phase of the points of one session.  A session is a steady  *)
(* piece with one record that stands out, in speed or in heart rate, and   *)
(* may hold a pause, after which the timer reads MaxPause seconds more.    *)

MaxPause == 100
MaxSession == 20
SessionLengths == {2, 7, MaxSession}
BumpKinds == {"fast", "slow", "pulse"}

SessionRecord(k, bump, kind, pause) ==
    [timer_time |-> Num((k - 1) + (IF pause # 0 /\ k > pause THEN MaxPause ELSE 0)),
     enhanced_speed |-> IF k # bump THEN Num(8)
                        ELSE CASE kind = "fast" -> Num(12)
                               [] kind = "slow" -> Num(5)
                               [] OTHER -> Num(8),
     heart_rate |-> IF k = bump /\ kind = "pulse" THEN Num(140) ELSE Num(120)]

SessionOf(n, bump, kind, pause) == [k \in 1..n |-> SessionRecord(k, bump, kind, pause)]

InitSession ==
    /\ \E n \in SessionLengths :
        \E bump \in 1..n, kind \in BumpKinds, pause \in {0, 1, n - 1} :
            /\ heap = SessionOf(n, bump, kind, pause)
            /\ input = [k \in 1..n |-> k]
            /\ orig = SessionOf(n, bump, kind, pause)
    /\ showFilteredData = TRUE
    /\ filterMethod = "auto"
    /\ originalData = <<>>
    /\ call = NoCall
    /\ result = <<>>
    /\ stats = NoStats
    /\ series = <<>>
    /\ zones = <<>>
    /\ zoneOut = <<>>

\* detectWorkoutPhase(centerIndex) within a fixSensorNoise(dataPoints, options);
\* the main loop analyses the indices from the second record on
DetectWorkoutPhase(centerIndex, options) ==
    /\ call.op = "none"
    /\ centerIndex \in 2..Len(input)
    /\ call' = [op |-> "detectWorkoutPhase",
                options |-> [centerIndex |-> centerIndex,
                             contextualAwareness |-> options.contextualAwareness]]
    /\ result' = input
    /\ stats' = [phase |-> detectWorkoutPhase(Deref(heap, input), centerIndex, options)]
    /\ UNCHANGED <<heap, input, orig, showFilteredData, filterMethod, originalData,
                   series, zones, zoneOut>>

NextPhase ==
    \E centerIndex \in 2..MaxSession, aware \in BOOLEAN :
        DetectWorkoutPhase(centerIndex, [defaultOptions EXCEPT !.contextualAwareness = aware])

SpecPhase == InitSession /\ [][NextPhase]_vars

----------------------------------------------------------------------------
(* The zone distribution engine on its own: a session's points and a zone  *)
(* table, and the one call that reads them.                                *)

MaxPoints == 3

TimeValues == {0, 10, 20, 30}
PointValues == {30, 50, 51, 70}

Zone(min, max, name) == [min |-> min, max |-> max, name |-> name]

ZoneTables ==
    { <<Zone(Num(0), Num(50), "A"), Zone(Num(51), Num(100), "B")>>,   \* disjoint
      <<Zone(Num(0), Num(60), "A"), Zone(Num(40), Num(100), "B")>>,   \* overlapping
      <<Zone(Num(0), Num(40), "A"), Zone(Num(60), Num(100), "B")>>,   \* with a gap
      <<Zone(Num(0), Num(50), "A"), Zone(Num(51), Num(100), "A")>>,   \* one name twice
      <<Zone(Num(0), Num(50), "A"), Zone(Num(51), Inf(1), "B")>> }    \* open at the top

\* points in time order: the time field never decreases
SeriesOfLength(n) ==
    { [k \in 1..n |-> [timer_time |-> Num(times[k]), value |-> Num(values[k])]] :
        times \in {t \in [1..n -> TimeValues] : \A k \in 1..(n - 1) : t[k] <= t[k + 1]},
        values \in [1..n -> PointValues] }

NoZoneCall == [threw |-> FALSE, items |-> <<>>]

InitZone ==
    /\ series \in UNION { SeriesOfLength(n) : n \in 0..MaxPoints }
    /\ zones \in ZoneTables
    /\ zoneOut = NoZoneCall
    /\ call = NoCall
    /\ heap = <<>>
    /\ input = <<>>
    /\ orig = <<>>
    /\ showFilteredData = TRUE
    /\ filterMethod = "auto"
    /\ originalData = <<>>
    /\ result = <<>>
    /\ stats = NoStats

\* getFieldTimeSeries: a field no record carries is an error; a falsy value reads 0
getFieldTimeSeries(records, fieldName) ==
    [k \in 1..Len(records) |->
        [timer_time |-> Get(records[k], "timer_time"),
         value |-> IF Truthy(Get(records[k], fieldName))
                   THEN Get(records[k], fieldName) ELSE Num(0)]]

FieldAvailable(records, fieldName) ==
    \E k \in 1..Len(records) : fieldName \in DOMAIN records[k]

CalculateZoneDistribution ==
    /\ call.op = "none"
    /\ zoneOut' = calculateZoneDistribution(series, zones)
    /\ call' = [op |-> "calculateZoneDistribution", options |-> <<>>]
    /\ UNCHANGED <<heap, input, orig, showFilteredData, filterMethod, originalData,
                   result, stats, series, zones>>

\* TrainingSessionAnalyser.getFieldZoneDistribution over the session's points
GetFieldZoneDistribution ==
    /\ call.op = "none"
    /\ zoneOut' = IF ~FieldAvailable(series, "value")
                  THEN [threw |-> TRUE, items |-> <<>>]
                  ELSE calculateZoneDistribution(getFieldTimeSeries(series, "value"), zones)
    /\ call' = [op |-> "getFieldZoneDistribution", options |-> <<>>]
    /\ UNCHANGED <<heap, input, orig, showFilteredData, filterMethod, originalData,
                   result, stats, series, zones>>

NextZone ==
    \/ CalculateZoneDistribution
    \/ GetFieldZoneDistribution

SpecZone == InitZone /\ [][NextZone]_vars

----------------------------------------------------------------------------
(* Properties of the correction strategies.                                *)

StrategyOps ==
    {"filterSensorData", "fixSensorNoise", "fixSensorNoiseWindowed", "fixSensorNoiseSimple"}

FixOps == {"fixSensorNoise", "fixSensorNoiseWindowed", "fixSensorNoiseSimple"}

\* the records of the returned array
Out == Deref(heap, result)

\* the method a filterSensorData call was given
MethodOf == call.options.method

\* the target fields of the call made
TargetFields ==
    IF call.op = "filterSensorData" /\ call.options.fields # <<>>
    THEN call.options.fields ELSE defaultFields

TargetKeys ==
    UNION { {TargetFields[f]} \cup SideKeys(TargetFields[f]) : f \in 1..Len(TargetFields) }

Positions == 1..Len(orig)
FieldIndices == 1..Len(TargetFields)

\* the call flagged no point as corrected
NothingFlagged ==
    \A i \in 1..Len(Out) : \A f \in FieldIndices : ~isCorrectedPoint(Out, i, TargetFields[f])

\* C1: every strategy returns as many records as it was given, in the same
\* order, and every key that is neither a target field nor one of its
\* side-channel keys holds the value it held in the input record.
C1_OtherKeysKeepTheirValues ==
    call.op \in StrategyOps =>
        /\ Len(Out) = Len(orig)
        /\ \A i \in Positions :
            \A key \in (DOMAIN orig[i] \cup DOMAIN Out[i]) \ TargetKeys :
                Get(Out[i], key) = Get(orig[i], key)

\* C2: no call changes the caller's array or any record in it, and the array
\* a strategy returns shares no record with the caller's; only applyFilter,
\* when it runs no strategy, hands the caller's own array back.
C2_InputNeverMutated ==
    /\ input = [k \in Positions |-> k]
    /\ Deref(heap, input) = orig
    /\ call.op # "none" /\ (call.op = "applyFilter" => showFilteredData) =>
            \A k \in 1..Len(result) : \A j \in 1..Len(input) : result[k] # input[j]
    /\ call.op = "applyFilter" /\ ~showFilteredData => result = input

\* a strategy has written corrections into a working copy of its own
C2_Witness ==
    /\ call.op \in StrategyOps \cup {"applyFilter"}
    /\ Len(result) = MaxLen
    /\ \E i \in Positions : \E f \in FieldIndices :
            Get(Out[i], TargetFields[f]) # Get(orig[i], TargetFields[f])

\* the value JSON writes and reads back for v
ReadBack(v) == IF v.k \in {"nan", "inf"} THEN Null ELSE v

\* the keys a method adds to every record for diagnostics
DiagnosticKeys ==
    CASE MethodOf = "movingAverage" ->
            UNION { {MeanKey(TargetFields[f]), StddevKey(TargetFields[f])} : f \in FieldIndices }
      [] MethodOf = "kalman" -> { FilteredKey(TargetFields[f]) : f \in FieldIndices }
      [] OTHER -> {}

\* C3 as stated: when no point violates the method's drop condition, so that
\* the method flags nothing, filterSensorData returns the series identical to
\* its input, no value changed and no key added.
C3_StableSeriesReturnedIdentical ==
    call.op = "filterSensorData" /\ NothingFlagged => Out = orig

\* C3 amended: when the method flags no point, every value of the returned
\* series is the value of the input as JSON reads it back, and the only keys
\* added are F_mean and F_stddev by movingAverage and F_filtered by kalman.
C3_StableSeriesKeepsValues ==
    call.op = "filterSensorData" /\ NothingFlagged =>
        /\ Len(Out) = Len(orig)
        /\ \A i \in Positions :
            /\ \A key \in DOMAIN orig[i] : Get(Out[i], key) = ReadBack(orig[i][key])
            /\ \A key \in DOMAIN Out[i] \ DOMAIN orig[i] : key \in DiagnosticKeys

\* kalman ran over a series of rising readings and flagged nothing
C3_Witness ==
    /\ call.op = "filterSensorData" /\ MethodOf = "kalman"
    /\ NothingFlagged
    /\ Len(Out) >= 2
    /\ \E i \in 2..Len(Out) : Get(orig[i], "watt") # Get(orig[i - 1], "watt")
    /\ \A i \in 1..Len(Out) : FilteredKey("watt") \in DOMAIN Out[i]

\* C4: a target field changed by a call carries F_corrected = true and the
\* input value as F_original, a target field not changed carries neither
\* key, and getOriginalValue gives the input value at every index.
C4_EveryChangeIsAnnotated ==
    call.op \in StrategyOps =>
        \A i \in 1..Len(Out) : \A f \in FieldIndices :
            LET F == TargetFields[f]
                before == Get(orig[i], F)
            IN  /\ getOriginalValue(Out, i, F) = before
                /\ IF Get(Out[i], F) # before
                   THEN /\ Get(Out[i], CorrectedKey(F)) = True
                        /\ Get(Out[i], OriginalKey(F)) = before
                   ELSE /\ CorrectedKey(F) \notin DOMAIN Out[i]
                        /\ OriginalKey(F) \notin DOMAIN Out[i]

\* the least value the correlation strategy takes for plausible in a field
CorrelationFloor(field) ==
    IF field = "stroke_rate" THEN Num(strokeRateFloorLow) ELSE Num(wattFloorLow)

\* C5: every value the threshold strategy writes is at least minStableReading
\* and every value the correlation strategy writes is at least the floor of
\* its field.
C5_WrittenValuesReachTheFloor ==
    call.op = "filterSensorData" /\ MethodOf # "movingAverage" /\ MethodOf # "kalman" =>
        \A i \in 1..Len(Out) : \A f \in FieldIndices :
            LET F == TargetFields[f]
            IN  isCorrectedPoint(Out, i, F) =>
                    JsGe(Get(Out[i], F),
                         IF MethodOf = "threshold" THEN Num(minStableReading)
                         ELSE CorrelationFloor(F))

\* speed 0 and both target fields 0 at every point
Stationary ==
    /\ Len(orig) > 0
    /\ \A i \in Positions :
        \A key \in {"enhanced_speed", "watt", "stroke_rate"} : Get(orig[i], key) = Num(0)

\* C6: on a stationary series no strategy changes a target value or flags a
\* point as corrected.
C6_StationarySeriesUntouched ==
    call.op \in StrategyOps /\ Stationary =>
        \A i \in 1..Len(Out) : \A f \in FieldIndices :
            /\ Get(Out[i], TargetFields[f]) = Get(orig[i], TargetFields[f])
            /\ ~isCorrectedPoint(Out, i, TargetFields[f])


\* the reference speed of input record i, as a number or undefined
SpeedAt(i) ==
    IF IsNumber(Get(orig[i], "enhanced_speed")) THEN Get(orig[i], "enhanced_speed")
    ELSE Undef

\* |speed[i] - speed[i-1]| / speed[i-1] x 100
SpeedVariationAt(i) ==
    JsMul(JsDiv(MathAbs(JsSub(SpeedAt(i), SpeedAt(i - 1))), SpeedAt(i - 1)), Num(100))

\* C7: fixSensorNoise, in each of its versions, changes a target field at a
\* position only when the position is not the first, the speed is defined
\* there and one position earlier, the one-step speed variation is at most
\* speedStabilityThreshold and the speed is above 1.0.
C7_ChangedOnlyAtStableSpeed ==
    call.op \in FixOps =>
        /\ Len(Out) = Len(orig)
        /\ \A i \in Positions : \A f \in FieldIndices :
            Get(Out[i], TargetFields[f]) # Get(orig[i], TargetFields[f]) =>
                /\ i >= 2
                /\ SpeedAt(i).k # "undef" /\ SpeedAt(i - 1).k # "undef"
                /\ JsLe(SpeedVariationAt(i), Num(call.options.speedStabilityThreshold))
                /\ JsGt(SpeedAt(i), Num(1))

\* the contextual version has repaired a field at a position after the first
C7_Witness ==
    /\ call.op = "fixSensorNoise"
    /\ \E i \in Positions : \E f \in FieldIndices :
        /\ i >= 2
        /\ Get(Out[i], TargetFields[f]) # Get(orig[i], TargetFields[f])
        /\ SpeedVariationAt(i) # Num(0)

\* C8: a filterSensorData call with method 'auto', or with a method the
\* dispatcher does not know, returns what the same call with method
\* 'correlation' returns, and the other way round.
C8_AutoIsCorrelation ==
    /\ call.op = "filterSensorData" /\ MethodOf \in {"auto", "smooth"} =>
            Out = filterSensorData(orig, [call.options EXCEPT !.method = "correlation"])
    /\ call.op = "filterSensorData" /\ MethodOf = "correlation" =>
            Out = filterSensorData(orig, [call.options EXCEPT !.method = "auto"])

\* a call with an unknown method and a window size of its own has corrected a point
C8_Witness ==
    /\ call.op = "filterSensorData" /\ MethodOf = "smooth"
    /\ call.options.windowSize # 0
    /\ ~NothingFlagged

----------------------------------------------------------------------------
(* Properties of the zone distribution.                                    *)

ZoneOps == {"calculateZoneDistribution", "getFieldZoneDistribution"}

\* the duration the walk is to attribute to point k: the step from the point before
StepTo(k) ==
    IF k = 1 THEN Num(0) ELSE JsSub(series[k].timer_time, series[k - 1].timer_time)

RECURSIVE TimeInZone(_, _)
TimeInZone(zone, k) ==
    IF k = 0 THEN Num(0)
    ELSE IF JsGe(series[k].value, zone.min) /\ JsLe(series[k].value, zone.max)
         THEN JsAdd(TimeInZone(zone, k - 1), StepTo(k))
         ELSE TimeInZone(zone, k - 1)

\* C9: the duration reported for a zone is the sum, over the points whose
\* value lies in [min, max], of the step from the point before, the first
\* point counting 0 whatever its time.
C9_DurationIsSumOfSteps ==
    call.op \in ZoneOps /\ ~zoneOut.threw =>
        \A z \in 1..Len(zones) :
            zoneOut.items[z].duration = TimeInZone(zones[z], Len(series))

RECURSIVE SumPercentages(_, _)
SumPercentages(items, z) ==
    IF z = 0 THEN Num(0) ELSE JsAdd(SumPercentages(items, z - 1), items[z].percentage)

\* the zones are pairwise disjoint and every value of the series lies in one
Partitioned ==
    /\ \A y, z \in 1..Len(zones) :
            y < z => JsLt(zones[y].max, zones[z].min) \/ JsLt(zones[z].max, zones[y].min)
    /\ \A k \in 1..Len(series) : \E z \in 1..Len(zones) :
            JsGe(series[k].value, zones[z].min) /\ JsLe(series[k].value, zones[z].max)

StrictlyIncreasing ==
    \A k \in 2..Len(series) : JsLt(series[k - 1].timer_time, series[k].timer_time)

\* C10: for a series of at least two points with strictly increasing times
\* and a zone table that partitions its values, the percentages sum to 100.
C10_PercentagesSumTo100 ==
    /\ call.op \in ZoneOps /\ ~zoneOut.threw
    /\ Len(series) >= 2 /\ StrictlyIncreasing /\ Partitioned
    => SumPercentages(zoneOut.items, Len(zoneOut.items)) = Num(100)

\* C11: calculateZoneDistribution on a series of fewer than two points does
\* not throw, and none of its items has a duration other than 0 or a
\* percentage that is not a finite number.
C11_ShortSeriesGivesNeutralResult ==
    call.op = "calculateZoneDistribution" /\ Len(series) < 2 =>
        /\ ~zoneOut.threw
        /\ \A z \in 1..Len(zoneOut.items) :
                /\ zoneOut.items[z].duration = Num(0)
                /\ zoneOut.items[z].percentage.k = "num"

\* the duration the walk gives to point k: its time less the time before it,
\* the time before the first point being 0
DurationOfPoint(k) ==
    IF k = 1 THEN JsSub(series[1].timer_time, Num(0))
    ELSE JsSub(series[k].timer_time, series[k - 1].timer_time)

RECURSIVE AccumulatedFor(_, _)
AccumulatedFor(zone, k) ==
    IF k = 0 THEN Num(0)
    ELSE IF JsGe(series[k].value, zone.min) /\ JsLe(series[k].value, zone.max)
         THEN JsAdd(AccumulatedFor(zone, k - 1), DurationOfPoint(k))
         ELSE AccumulatedFor(zone, k - 1)

\* C12: the result has one item per zone, in the table's order: item k names
\* zone k of the table and carries the duration accumulated for that zone
\* alone, also when two zones of the table share a name.
C12_OneItemPerZoneInOrder ==
    call.op \in ZoneOps /\ ~zoneOut.threw =>
        /\ Len(zoneOut.items) = Len(zones)
        /\ \A z \in 1..Len(zones) :
                /\ zoneOut.items[z].zone = zones[z]
                /\ zoneOut.items[z].duration = AccumulatedFor(zones[z], Len(series))

----------------------------------------------------------------------------
(* Properties of calculateFilterImprovementMetrics.                        *)

\* the arrays and fields the comparison was given
MetricsOriginal == OriginalArgument(call.options.original)
MetricsFiltered == FilteredArgument(call.options.filtered)
MetricsFieldsGiven == call.options.fields
MetricsCalled == call.op = "calculateFilterImprovementMetrics"

\* C13: given arrays of different lengths the comparison returns an error
\* object that carries originalLength and filteredLength and no computed
\* metric; given a missing array it returns an error object.
C13_MismatchGivesErrorObject ==
    MetricsCalled =>
        /\ MetricsOriginal.missing \/ MetricsFiltered.missing =>
                /\ "error" \in DOMAIN stats
                /\ DOMAIN stats \cap {"totalPoints", "correctedPoints",
                                       "dropoutReduction", "averageValues"} = {}
        /\ (/\ ~MetricsOriginal.missing
            /\ ~MetricsFiltered.missing
            /\ Len(MetricsOriginal.items) # Len(MetricsFiltered.items)) =>
                /\ DOMAIN stats = {"error", "originalLength", "filteredLength"}
                /\ stats.originalLength = Len(MetricsOriginal.items)
                /\ stats.filteredLength = Len(MetricsFiltered.items)

C13_Witness ==
    /\ MetricsCalled
    /\ call.options.original = "data"
    /\ call.options.filtered = "shortened"
    /\ Len(input) = 3
    /\ "error" \in DOMAIN stats
    /\ stats.filteredLength = 2

\* the valid (non-null, non-NaN) values of a field, in record order
RECURSIVE ValidReadings(_, _, _)
ValidReadings(records, field, k) ==
    IF k > Len(records) THEN <<>>
    ELSE IF IsValidReading(Get(records[k], field))
         THEN <<Get(records[k], field)>> \o ValidReadings(records, field, k + 1)
         ELSE ValidReadings(records, field, k + 1)

RECURSIVE SumReadings(_, _)
SumReadings(values, k) ==
    IF k > Len(values) THEN Num(0) ELSE JsAdd(values[k], SumReadings(values, k + 1))

IsMeanOfValid(mean, records, field) ==
    LET Holds(values) ==
            Len(values) > 0 => mean = JsDiv(SumReadings(values, 1), Num(Len(values)))
    IN  Holds(ValidReadings(records, field, 1))

CarriedBySome(records, field) ==
    \E k \in 1..Len(records) : Get(records[k], field) # Undef

\* C14: for arrays of equal length, every requested field that some record
\* carries has an averageValues entry whose original is the mean of the valid
\* original values and whose filtered is the mean of the valid filtered values.
C14_AveragesAreMeansOfValidValues ==
    MetricsCalled /\ "averageValues" \in DOMAIN stats =>
        \A f \in 1..Len(MetricsFieldsGiven) :
            CarriedBySome(MetricsOriginal.items, MetricsFieldsGiven[f]) =>
                /\ MetricsFieldsGiven[f] \in DOMAIN stats.averageValues
                /\ IsMeanOfValid(stats.averageValues[MetricsFieldsGiven[f]].original,
                                 MetricsOriginal.items, MetricsFieldsGiven[f])
                /\ IsMeanOfValid(stats.averageValues[MetricsFieldsGiven[f]].filtered,
                                 MetricsFiltered.items, MetricsFieldsGiven[f])

----------------------------------------------------------------------------
(* Properties of the correlation strategy on a steady piece.               *)

CorrelationCalled == call.op = "correlationBasedFiltering"

\* the reference speed is one number above 1 on every record
SteadySpeedAboveOne ==
    /\ Len(orig) > 0
    /\ IsNumber(Get(orig[1], defaultReferenceField))
    /\ JsGt(Get(orig[1], defaultReferenceField), Num(1))
    /\ \A k \in 1..Len(orig) :
            Get(orig[k], defaultReferenceField) = Get(orig[1], defaultReferenceField)

\* field holds one positive reading v everywhere but at the interior index i,
\* where it holds a number more than 30% below v
IsolatedDropout(field, i) ==
    /\ 1 < i /\ i < Len(orig)
    /\ IsNumber(Get(orig[1], field))
    /\ JsGt(Get(orig[1], field), Num(0))
    /\ \A k \in 1..Len(orig) : k # i => Get(orig[k], field) = Get(orig[1], field)
    /\ IsNumber(Get(orig[i], field))
    /\ JsLt(Get(orig[i], field), JsMul(Get(orig[1], field), Q(7, 10)))

\* exactly index i is flagged and holds v; the other points are as they were
OnlyDropoutRepaired(field, i) ==
    /\ Get(Out[i], CorrectedKey(field)) = True
    /\ Get(Out[i], field) = Get(orig[1], field)
    /\ \A k \in 1..Len(orig) : k # i =>
            /\ Get(Out[k], field) = Get(orig[k], field)
            /\ Get(Out[k], CorrectedKey(field)) = Undef

\* the reading is one the strategy takes for plausible at that speed: above
\* 10, and not below the typical range of watt (50 above speed 5) or of
\* stroke_rate (15 above speed 7)
PlausibleReading(field) ==
    /\ JsGt(Get(orig[1], field), Num(suddenDropPrevious))
    /\ field = "watt" /\ JsGt(Get(orig[1], defaultReferenceField), Num(wattSpeed))
            => JsGe(Get(orig[1], field), Num(wattLimit))
    /\ field = "stroke_rate"
        /\ JsGt(Get(orig[1], defaultReferenceField), Num(strokeRateSpeed))
            => JsGe(Get(orig[1], field), Num(strokeRateLimit))

\* C15 as stated: on a steady piece with an isolated dropout of a target
\* field, the correlation strategy flags exactly the dropout's index and
\* replaces its value by v; every other point is unchanged and unflagged.
C15_IsolatedDropoutRepaired ==
    CorrelationCalled /\ SteadySpeedAboveOne =>
        \A f \in 1..Len(call.options.fields), i \in 1..Len(orig) :
            IsolatedDropout(call.options.fields[f], i) =>
                OnlyDropoutRepaired(call.options.fields[f], i)

\* C15 amended: the same, for a reading v above 10 that is not below the
\* typical range of its field at that speed.
C15_PlausibleDropoutRepaired ==
    CorrelationCalled /\ SteadySpeedAboveOne =>
        \A f \in 1..Len(call.options.fields), i \in 1..Len(orig) :
            IsolatedDropout(call.options.fields[f], i)
            /\ PlausibleReading(call.options.fields[f]) =>
                OnlyDropoutRepaired(call.options.fields[f], i)

\* speed 5 throughout, watt 100 with a 5 at the third of five records
C15_Witness ==
    /\ CorrelationCalled
    /\ Len(orig) = 5
    /\ \A k \in 1..5 : Get(orig[k], "enhanced_speed") = Num(5)
    /\ \A k \in {1, 2, 4, 5} : Get(orig[k], "watt") = Num(100)
    /\ Get(orig[3], "watt") = Num(5)
    /\ Get(Out[3], "watt") = Num(100)
    /\ Get(Out[3], "watt_corrected") = True

----------------------------------------------------------------------------
(* Properties of the Kalman strategy.                                      *)

KalmanCalled == call.op = "filterSensorData" /\ MethodOf = "kalman"

\* the dropThreshold a kalman call works with
KalmanDropThreshold ==
    IF call.options.dropThreshold.n # 0 THEN call.options.dropThreshold
    ELSE defaultDropThreshold

\* the filter of a field after the first k iterations of its loop
FilterAfter(field, k) ==
    KalmanLoop([filter |-> InitialFilter(orig, field),
                res |-> SubSeq(JsonClone(orig), 1, k)],
               1, field, KalmanDropThreshold).filter

\* the first reading is a positive number, every later one is missing or zero
ValidThenNothing(field) ==
    /\ Len(orig) >= 2
    /\ ValidPositive(Get(orig[1], field))
    /\ \A k \in 2..Len(orig) :
            IsMissing(Get(orig[k], field)) \/ Get(orig[k], field) = Num(0)

CoastsFrom(field, first) ==
    \A k \in 2..Len(orig) :
        /\ FilterAfter(field, k).x = first.x
        /\ Get(Out[k], field) = first.x
        /\ Get(Out[k], FilteredKey(field)) = first.x
        /\ Get(Out[k], CorrectedKey(field)) = True
        /\ FilterAfter(field, k).P = JsAdd(FilterAfter(field, k - 1).P, processNoise)
        /\ JsGt(FilterAfter(field, k).P, FilterAfter(field, k - 1).P)

\* C16: when the first reading of a field is valid and all later ones are
\* missing or zero, the Kalman strategy keeps the state estimate it has after
\* the first point, writes it to F and F_filtered of every later point with
\* F_corrected = true, and its error covariance grows by the process noise
\* at every later step.
C16_KalmanCoasts ==
    KalmanCalled =>
        \A f \in FieldIndices :
            ValidThenNothing(TargetFields[f]) =>
                CoastsFrom(TargetFields[f], FilterAfter(TargetFields[f], 1))

\* a steady first record, then watt reading zero, then watt null
C16_Witness ==
    /\ KalmanCalled
    /\ Len(orig) = 3
    /\ Get(orig[1], "watt") = Num(100)
    /\ Get(orig[2], "watt") = Num(0)
    /\ Get(orig[3], "watt") = Null
    /\ Get(Out[3], "watt") = Num(100)
    /\ Get(Out[3], "watt_corrected") = True

\* C17: the Kalman strategy stores F_filtered, the estimate after the point's
\* update, on every returned record for every target field; on a corrected
\* point F equals F_filtered, and on a point judged valid F keeps its input
\* value.
C17_FilteredStoredOnEveryPoint ==
    KalmanCalled =>
        /\ Len(Out) = Len(orig)
        /\ \A i \in Positions : \A f \in FieldIndices :
            /\ FilteredKey(TargetFields[f]) \in DOMAIN Out[i]
            /\ Get(Out[i], FilteredKey(TargetFields[f])) = FilterAfter(TargetFields[f], i).x
            /\ IF Get(Out[i], CorrectedKey(TargetFields[f])) = True
               THEN Get(Out[i], TargetFields[f]) = Get(Out[i], FilteredKey(TargetFields[f]))
               ELSE Get(Out[i], TargetFields[f]) = Get(orig[i], TargetFields[f])

\* one point taken as a measurement whose estimate differs from the reading,
\* and one point corrected
C17_Witness ==
    /\ KalmanCalled
    /\ \E i \in Positions :
            /\ Get(Out[i], CorrectedKey("watt")) = Undef
            /\ IsNumber(Get(Out[i], "watt"))
            /\ Get(Out[i], FilteredKey("watt")) # Get(Out[i], "watt")
    /\ \E i \in Positions :
            /\ Get(Out[i], CorrectedKey("watt")) = True
            /\ Get(Out[i], FilteredKey("watt")) = Get(Out[i], "watt")

----------------------------------------------------------------------------
(* Properties of the statistics fixSensorNoise returns.                    *)

\* the indices at which the returned record differs from the input record
ChangedIndices == {i \in 1..Len(orig) : i <= Len(Out) /\ Out[i] # orig[i]}

\* C18: for every input, the empty one included, fixSensorNoise returns
\* totalPoints = the number of records, noisyPoints counting the fixed
\* indices (every changed index, and no more than totalPoints), and
\* qualityScore = 100 x (1 - noisyPoints / totalPoints), a number in [0, 100].
C18_QualityScoreWellDefined ==
    call.op = "fixSensorNoise" =>
        /\ stats.totalPoints = Len(orig)
        /\ Cardinality(ChangedIndices) <= stats.noisyPoints
        /\ stats.noisyPoints <= stats.totalPoints
        /\ stats.qualityScore.k = "num"
        /\ JsGe(stats.qualityScore, Num(0))
        /\ JsLe(stats.qualityScore, Num(100))
        /\ stats.qualityScore =
                JsMul(Num(100),
                      JsSub(Num(1), JsDiv(Num(stats.noisyPoints), Num(stats.totalPoints))))

----------------------------------------------------------------------------
(* Properties of the threshold strategy's repair.                          *)

ThresholdCalled == call.op = "cleanSensorDataWithThresholds"

\* the working copy when the loop reaches index i
RECURSIVE WorkingCopyAt(_)
WorkingCopyAt(i) ==
    IF i <= 2 THEN JsonClone(orig)
    ELSE ThresholdFields(WorkingCopyAt(i - 1), i - 1, call.options.fields, 1,
                         defaultReferenceField)

\* the working copy when the loop has finished index i
WorkingCopyAfter(i) ==
    ThresholdFields(WorkingCopyAt(i), i, call.options.fields, 1, defaultReferenceField)

\* a dropout at index i of the copy cd: the value is below half the previous
\* one and below 10, and the reference moved by less than 20%
DropoutAt(cd, field, i) ==
    /\ IsNumber(Get(cd[i], field)) /\ IsNumber(Get(cd[i - 1], field))
    /\ JsLt(Get(cd[i], field), JsMul(Get(cd[i - 1], field), Q(1, 2)))
    /\ JsLt(Get(cd[i], field), Num(10))
    /\ IsNumber(Get(cd[i], defaultReferenceField))
    /\ IsNumber(Get(cd[i - 1], defaultReferenceField))
    /\ JsLt(MathAbs(JsSub(Get(cd[i], defaultReferenceField),
                          Get(cd[i - 1], defaultReferenceField))),
            JsMul(Q(1, 5), MathMax(Q(1, 10),
                                   MathAbs(Get(cd[i - 1], defaultReferenceField)))))

\* the indices after i that hold a value of at least 10
RecoveriesAfter(cd, field, i) ==
    {n \in (i + 1)..Len(cd) :
        IsNumber(Get(cd[n], field)) /\ JsGe(Get(cd[n], field), Num(10))}

FirstOf(indices) == CHOOSE n \in indices : \A m \in indices : n <= m

\* prev + (value[n] - prev) x (j - (i-1)) / (n - (i-1))
Interpolation(prev, atN, i, n, j) ==
    JsAdd(prev, JsDiv(JsMul(JsSub(atN, prev), Num(j - (i - 1))), Num(n - (i - 1))))

RepairedUpTo(before, after, field, i, n) ==
    /\ \A j \in i..(n - 1) :
            /\ Get(after[j], field) =
                    Interpolation(Get(before[i - 1], field), Get(before[n], field), i, n, j)
            /\ Get(Out[j], field) = Get(after[j], field)
    /\ \A j \in n..Len(before) : after[j] = before[j]

\* C19: when the threshold strategy meets a dropout at index i and a later
\* index holds a value of at least 10, n being the first, it rewrites every
\* index j of [i, n) to the linear interpolation between the value at i-1
\* and the value at n, and leaves the records from n on as they are.
C19_GapInterpolated ==
    ThresholdCalled =>
        \A f \in 1..Len(call.options.fields), i \in 2..Len(orig) :
            /\ DropoutAt(WorkingCopyAt(i), call.options.fields[f], i)
            /\ RecoveriesAfter(WorkingCopyAt(i), call.options.fields[f], i) # {}
            => RepairedUpTo(WorkingCopyAt(i), WorkingCopyAfter(i), call.options.fields[f], i,
                            FirstOf(RecoveriesAfter(WorkingCopyAt(i),
                                                    call.options.fields[f], i)))

\* watt 100, 4, null, 20 at steady speed: the gap of two records is filled
C19_Witness ==
    /\ ThresholdCalled
    /\ Len(orig) = 4
    /\ \A k \in 1..4 : Get(orig[k], "enhanced_speed") = Num(8)
    /\ Get(orig[1], "watt") = Num(100)
    /\ Get(orig[2], "watt") = Num(4)
    /\ Get(orig[3], "watt") = Null
    /\ Get(orig[4], "watt") = Num(20)
    /\ Get(Out[2], "watt") = Q(220, 3)
    /\ Get(Out[3], "watt") = Q(140, 3)
    /\ Get(Out[4], "watt") = Num(20)

\* C20: when the threshold strategy meets a dropout at index i and no later
\* index holds a value of at least minStableReading, every index from i to
\* the end of the returned series holds the value at i-1.
C20_HeldToTheEnd ==
    ThresholdCalled =>
        \A f \in 1..Len(call.options.fields), i \in 2..Len(orig) :
            /\ DropoutAt(WorkingCopyAt(i), call.options.fields[f], i)
            /\ RecoveriesAfter(WorkingCopyAt(i), call.options.fields[f], i) = {}
            => \A j \in i..Len(orig) :
                    Get(Out[j], call.options.fields[f])
                        = Get(WorkingCopyAt(i)[i - 1], call.options.fields[f])

----------------------------------------------------------------------------
(* Properties of the moving-average strategy.                              *)

MovingCalled == call.op = "applyMovingAverageFilter"

\* the indices of the centred window of i, clipped to the sequence
CentredWindow(i, w) ==
    {j \in 1..Len(orig) : i - (w \div 2) <= j /\ j <= i + (w \div 2)}

\* the input value of a field at j, or no value when it is not a valid number
ValidInput(j, field) == Get(orig[j], field).k = "num"

ValidIn(i, w, field) == {j \in CentredWindow(i, w) : ValidInput(j, field)}

RECURSIVE SumOver(_, _)
SumOver(indices, field) ==
    IF indices = {} THEN Num(0)
    ELSE LET Rest(j) == JsAdd(Get(orig[j], field), SumOver(indices \ {j}, field))
         IN  Rest(CHOOSE j \in indices : TRUE)

RECURSIVE SumSquaresOver(_, _, _)
SumSquaresOver(indices, field, mean) ==
    IF indices = {} THEN Num(0)
    ELSE LET Rest(j) ==
                JsAdd(JsMul(JsSub(Get(orig[j], field), mean),
                            JsSub(Get(orig[j], field), mean)),
                      SumSquaresOver(indices \ {j}, field, mean))
         IN  Rest(CHOOSE j \in indices : TRUE)

LocalMean(i, w, field) ==
    JsDiv(SumOver(ValidIn(i, w, field), field), Num(Cardinality(ValidIn(i, w, field))))

\* the population variance of the valid values of the window
LocalVariance(i, w, field) ==
    JsDiv(SumSquaresOver(ValidIn(i, w, field), field, LocalMean(i, w, field)),
          Num(Cardinality(ValidIn(i, w, field))))

\* value < mean - 2 x stddev, decided on squares
TwoDeviationsBelow(i, w, field) ==
    LET Below(gap, variance) ==
            JsGt(gap, Num(0)) /\ JsGt(JsMul(gap, gap), JsMul(Num(4), variance))
    IN  /\ ValidInput(i, field)
        /\ Below(JsSub(LocalMean(i, w, field), Get(orig[i], field)),
                 LocalVariance(i, w, field))

\* C21: the moving-average strategy flags a point exactly when its value is
\* valid and more than 2 population standard deviations below the mean of
\* the valid input values of its centred window; a flagged point holds that
\* mean, every other point keeps its value.
C21_FlaggedExactlyBelowTwoDeviations ==
    MovingCalled =>
        \A f \in 1..Len(call.options.fields), i \in 1..Len(orig) :
            IF TwoDeviationsBelow(i, call.options.windowSize, call.options.fields[f])
            THEN /\ Get(Out[i], CorrectedKey(call.options.fields[f])) = True
                 /\ Get(Out[i], call.options.fields[f])
                        = LocalMean(i, call.options.windowSize, call.options.fields[f])
            ELSE /\ Get(Out[i], CorrectedKey(call.options.fields[f])) = Undef
                 /\ Get(Out[i], call.options.fields[f]) = Get(orig[i], call.options.fields[f])

\* five steady readings and a zero in one window of six: the zero is replaced
C21_Witness ==
    /\ MovingCalled
    /\ call.options.windowSize = 6
    /\ Len(orig) = 6
    /\ \A k \in {1, 2, 4, 5, 6} : Get(orig[k], "watt") = Num(100)
    /\ Get(orig[3], "watt") = Num(0)
    /\ Get(Out[3], "watt") = Q(250, 3)
    /\ Get(Out[3], "watt_corrected") = True
    /\ Get(Out[4], "watt") = Num(100)

----------------------------------------------------------------------------
(* Properties of the correlation strategy's detection and repair.          *)

\* the value and the reference at i are valid numbers, the reference above limit
ValidWithReferenceAbove(i, field, limit) ==
    /\ Get(orig[i], field).k = "num"
    /\ Get(orig[i], defaultReferenceField).k = "num"
    /\ JsGt(Get(orig[i], defaultReferenceField), Num(limit))

\* the value at i is more than 30% below the value i-1 holds after correction
DropsFromPrevious(i, field) ==
    /\ i > 1
    /\ JsGt(Get(Out[i - 1], field), Num(0))
    /\ JsLt(Get(orig[i], field), JsMul(Get(Out[i - 1], field), Q(7, 10)))

Flagged(i, field) ==
    /\ Get(Out[i], CorrectedKey(field)) = True
    /\ Get(Out[i], OriginalKey(field)) = Get(orig[i], field)

\* C22 as stated: the correlation strategy flags every point with a valid
\* value and a reference above 1 whose value is more than 30% below the
\* value of the point before it, whatever positive value that is, and every
\* point with a value below 5 while the reference is above 3.
C22_EveryDropFlagged ==
    CorrelationCalled =>
        \A f \in 1..Len(call.options.fields), i \in 1..Len(orig) :
            /\ ValidWithReferenceAbove(i, call.options.fields[f], 1)
               /\ DropsFromPrevious(i, call.options.fields[f])
               => Flagged(i, call.options.fields[f])
            /\ ValidWithReferenceAbove(i, call.options.fields[f], 3)
               /\ JsLt(Get(orig[i], call.options.fields[f]), Num(5))
               => Flagged(i, call.options.fields[f])

\* C22 amended: the same, for a previous value above 10.
C22_DropFromAboveTenFlagged ==
    CorrelationCalled =>
        \A f \in 1..Len(call.options.fields), i \in 1..Len(orig) :
            /\ ValidWithReferenceAbove(i, call.options.fields[f], 1)
               /\ DropsFromPrevious(i, call.options.fields[f])
               /\ JsGt(Get(Out[i - 1], call.options.fields[f]), Num(10))
               => Flagged(i, call.options.fields[f])
            /\ ValidWithReferenceAbove(i, call.options.fields[f], 3)
               /\ JsLt(Get(orig[i], call.options.fields[f]), Num(5))
               => Flagged(i, call.options.fields[f])

\* speed 5, watt 100 falling to 30: flagged by the drop alone
C22_Witness ==
    /\ CorrelationCalled
    /\ Len(orig) = 3
    /\ \A k \in 1..3 : Get(orig[k], "enhanced_speed") = Num(5)
    /\ Get(orig[1], "watt") = Num(100)
    /\ Get(orig[2], "watt") = Num(30)
    /\ Get(Out[2], "watt_corrected") = True
    /\ Get(Out[2], "watt_original") = Num(30)

CorrelationMethodCalled == call.op = "filterSensorData" /\ MethodOf = "correlation"

\* what index j holds when index i is repaired: its returned value before i,
\* its input value after i
HeldAround(i, j, field) ==
    IF j < i THEN Get(Out[j], field) ELSE ReadBack(Get(orig[j], field))

\* the indices before (after) i that hold a valid positive value
EarlierValid(i, field) == {j \in 1..(i - 1) : ValidPositive(HeldAround(i, j, field))}
LaterValid(i, field) == {j \in (i + 1)..Len(orig) : ValidPositive(HeldAround(i, j, field))}

LastOf(indices) == CHOOSE p \in indices : \A m \in indices : m <= p

\* max(reference x 1, field floor), when no ratio statistics were established
FallbackValue(i, field) ==
    LET Floored(reference) ==
            CASE field = "stroke_rate" ->
                    MathMax(reference, IF JsGt(reference, Num(5)) THEN Num(20) ELSE Num(10))
              [] field = "watt" ->
                    MathMax(reference, IF JsGt(reference, Num(3)) THEN Num(50) ELSE Num(20))
              [] OTHER -> reference
    IN  Floored(Get(orig[i], defaultReferenceField))

\* value[p] + (value[n] - value[p]) x (i - p) / (n - p)
Between(i, p, n, field) ==
    JsAdd(HeldAround(i, p, field),
          JsDiv(JsMul(JsSub(HeldAround(i, n, field), HeldAround(i, p, field)), Num(i - p)),
                Num(n - p)))

ClaimedReplacement(i, field) ==
    CASE EarlierValid(i, field) # {} /\ LaterValid(i, field) # {} ->
            Between(i, LastOf(EarlierValid(i, field)), FirstOf(LaterValid(i, field)), field)
      [] EarlierValid(i, field) # {} ->
            HeldAround(i, LastOf(EarlierValid(i, field)), field)
      [] LaterValid(i, field) # {} ->
            HeldAround(i, FirstOf(LaterValid(i, field)), field)
      [] OTHER -> FallbackValue(i, field)

\* C23: a point the correlation strategy flags is replaced by the linear
\* interpolation between its nearest valid positive neighbours when it has
\* one on either side, by the one neighbour's value when it has one only,
\* and by the expected value otherwise.
C23_ReplacementInterpolates ==
    CorrelationMethodCalled =>
        \A f \in FieldIndices, i \in 1..Len(orig) :
            Get(Out[i], CorrectedKey(TargetFields[f])) = True =>
                Get(Out[i], TargetFields[f]) = ClaimedReplacement(i, TargetFields[f])

----------------------------------------------------------------------------
(* The order in which a pass repairs its points.                           *)

\* the reference field a filterSensorData call works with
CallReference ==
    IF call.options.referenceField # "" THEN call.options.referenceField
    ELSE defaultReferenceField

StrategyCalled(method) == call.op = "filterSensorData" /\ MethodOf = method

\* the working copy of the threshold strategy when its loop reaches index i
RECURSIVE ThresholdCopyAt(_)
ThresholdCopyAt(i) ==
    IF i <= 2 THEN JsonClone(orig)
    ELSE ThresholdFields(ThresholdCopyAt(i - 1), i - 1, TargetFields, 1, CallReference)

\* the working copy of the correlation strategy when its loop reaches index i
RECURSIVE CorrelationCopyAt(_)
CorrelationCopyAt(i) ==
    IF i <= 1 THEN JsonClone(orig)
    ELSE CorrelationFields(CorrelationCopyAt(i - 1), i - 1, orig, TargetFields, 1,
                           CallReference)

\* the records of the kalman strategy when the pass of its f-th field reaches
\* index i: the passes of the fields before it are over, and of this pass the
\* iterations before i
KalmanCopyAt(f, i) ==
    LET Earlier(res) ==
            KalmanLoop([filter |-> InitialFilter(orig, TargetFields[f]),
                        res |-> SubSeq(res, 1, i - 1)],
                       1, TargetFields[f], KalmanDropThreshold).res
    IN  Earlier(KalmanFields(JsonClone(orig), orig, SubSeq(TargetFields, 1, f - 1), 1,
                             KalmanDropThreshold))

\* fixedData when the loop of a fixSensorNoise reaches index i
RECURSIVE NoiseCopyAt(_)
NoiseCopyAt(i) ==
    IF i <= 2
    THEN IF call.op = "fixSensorNoise" THEN StartOfRun(orig) ELSE SimpleStart(orig)
    ELSE CASE call.op = "fixSensorNoise" -> FixPoint(NoiseCopyAt(i - 1), i - 1, call.options)
           [] call.op = "fixSensorNoiseWindowed" ->
                WindowedPoint(NoiseCopyAt(i - 1), i - 1, call.options)
           [] call.op = "fixSensorNoiseSimple" ->
                SimplePoint(NoiseCopyAt(i - 1), i - 1, call.options)

NoiseCalled == call.op \in {"fixSensorNoise", "fixSensorNoiseWindowed", "fixSensorNoiseSimple"}

\* the keys a strategy may write for a field
WrittenKeys(field) == {field} \cup SideKeys(field)

\* C24: in the threshold, correlation and kalman strategies and in
\* fixSensorNoise, when the loop reaches index i every record before i holds
\* what the call returns for it (in the kalman strategy, for the field whose
\* pass is running): no later step changes it, so the previous value the
\* drop test at i reads is the returned value of index i-1.
C24_EarlierRecordsAreFinal ==
    LET Final(copy, i) == \A j \in 1..(i - 1) : copy[j] = Out[j]
        FinalIn(copy, i, field) ==
            \A j \in 1..(i - 1) : \A key \in WrittenKeys(field) :
                Get(copy[j], key) = Get(Out[j], key)
    IN  \A i \in 1..(Len(orig) + 1) :
            /\ StrategyCalled("threshold") => Final(ThresholdCopyAt(i), i)
            /\ StrategyCalled("correlation") => Final(CorrelationCopyAt(i), i)
            /\ StrategyCalled("kalman") =>
                    \A f \in FieldIndices : FinalIn(KalmanCopyAt(f, i), i, TargetFields[f])
            /\ NoiseCalled => Final(NoiseCopyAt(i).fixedData, i)

\* index i-1 was repaired and index i, no lower than the input at i-1, was
\* repaired as a drop from the repaired value
RepairedAfterRepair(key) ==
    \E i \in 2..Len(orig) :
        /\ IsNumber(Get(orig[i - 1], key)) /\ IsNumber(Get(orig[i], key))
        /\ JsGe(Get(orig[i], key), Get(orig[i - 1], key))
        /\ Get(Out[i - 1], key) # Get(orig[i - 1], key)
        /\ Get(Out[i], key) # Get(orig[i], key)

C24_Witness ==
    /\ call.op = "fixSensorNoiseSimple"
    /\ RepairedAfterRepair("stroke_rate")

\* C25: in the contextual fixSensorNoise the counts of stats.phaseAnalysis over
\* warmup, main, interval, recovery and cooldown add up to stats.noisyPoints,
\* whether a point was fixed on stroke rate, on watt or on both.
C25_PhaseCountsAddUpToNoisyPoints ==
    call.op = "fixSensorNoise" =>
        stats.phaseAnalysis["warmup"] + stats.phaseAnalysis["main"]
            + stats.phaseAnalysis["interval"] + stats.phaseAnalysis["recovery"]
            + stats.phaseAnalysis["cooldown"] = stats.noisyPoints

\* the record key the inputs carry for a field of fixSensorNoise
KeyOf(fieldName) == IF fieldName = "stroke rate" THEN "stroke_rate" ELSE "watt"

\* index i of the returned array holds a value fixSensorNoise wrote for the field
ReplacementWritten(i, fieldName) ==
    Get(Out[i], KeyOf(fieldName)) # Get(orig[i], KeyOf(fieldName))

WithinReplacementBounds(value, previous, minValid) ==
    /\ JsGe(value, Num(minValid))
    /\ JsLe(value, JsMul(Num(2), previous))
    /\ RoundOneDecimal(value) = value

\* C26: every replacement value fixSensorNoise writes is at least the
\* configured minimum valid value of its field, at most twice the value of
\* the (already corrected) previous point, and has at most one decimal place.
C26_ReplacementWithinBounds ==
    call.op = "fixSensorNoise" =>
        \A i \in 2..Len(orig) : \A fieldName \in {"stroke rate", "watt"} :
            ReplacementWritten(i, fieldName) =>
                WithinReplacementBounds(Get(Out[i], KeyOf(fieldName)),
                                        Get(Out[i - 1], KeyOf(fieldName)),
                                        MinValidOf(fieldName, call.options))

----------------------------------------------------------------------------
(* The field accessors.                                                    *)

GetCalled == call.op \in {"getValue", "getValueFirstPresent"}
SetCalled == call.op \in {"setValue", "setValueFirstPresent"}

\* the spelling variants of a field name, in the order they are tried:
\* verbatim, space to underscore, underscore to space, lower case, upper case
SpellingVariants(fieldBase) ==
    <<fieldBase, SpaceToUnderscore(fieldBase), UnderscoreToSpace(fieldBase),
      ToLowerCase(fieldBase), ToUpperCase(fieldBase)>>

NumericVariants(point, fieldBase) ==
    {v \in 1..5 : IsNumber(Get(point, SpellingVariants(fieldBase)[v]))}

PresentVariants(point, fieldBase) ==
    {v \in 1..5 : Has(point, SpellingVariants(fieldBase)[v])}

\* C27: getValue returns the value of the first spelling variant (verbatim,
\* space to underscore, underscore to space, lower case, upper case) that is
\* present with a numeric value, skipping the variants that are present but
\* not numeric, and undefined only if no variant holds a number.
C27_FirstNumericVariantReturned ==
    GetCalled =>
        LET Claimed(point, fieldBase) ==
                IF NumericVariants(point, fieldBase) = {} THEN Undef
                ELSE Get(point, SpellingVariants(fieldBase)[
                                    FirstOf(NumericVariants(point, fieldBase))])
        IN  stats.returned = Claimed(orig[1], call.options.fieldBase)

\* the version the point was written by reads it back
ReadBackBy(op, point, fieldBase) ==
    IF op = "setValue" THEN getValue(point, fieldBase)
    ELSE getValueFirstPresent(point, fieldBase)

\* C28: setValue(record, F, v) writes v into the key of the first spelling
\* variant of F present on the record, and creates the key F only when no
\* variant is present; it changes no other key, and afterwards
\* getValue(record, F) returns v.
C28_WritesFirstPresentVariant ==
    SetCalled =>
        LET Claimed(point, fieldBase) ==
                IF PresentVariants(point, fieldBase) = {} THEN fieldBase
                ELSE SpellingVariants(fieldBase)[FirstOf(PresentVariants(point, fieldBase))]
        IN  /\ Out[1] = Put(orig[1], Claimed(orig[1], call.options.fieldBase),
                            call.options.value)
            /\ ReadBackBy(call.op, Out[1], call.options.fieldBase) = call.options.value

----------------------------------------------------------------------------
(* The workout phase.                                                      *)

PhaseCalled == call.op = "detectWorkoutPhase"

\* the position of the point in hand, counted from 0 as the code counts it
CenterPosition == call.options.centerIndex - 1

\* seconds between the first record and record k
ElapsedAt(k) == Get(orig[k], "timer_time").n - Get(orig[1], "timer_time").n

InFirstPartOfTime == 20 * ElapsedAt(call.options.centerIndex) < 3 * ElapsedAt(Len(orig))
InLastPartOfTime == 20 * ElapsedAt(call.options.centerIndex) > 17 * ElapsedAt(Len(orig))

InFirstPartOfRecords == 20 * CenterPosition < 3 * Len(orig)
InLastPartOfRecords == 20 * CenterPosition > 17 * Len(orig)

PhaseClassification(early, late) ==
    PhaseCalled =>
        IF ~call.options.contextualAwareness THEN stats.phase = "main"
        ELSE /\ early => stats.phase = "warmup"
             /\ late => stats.phase = "cooldown"
             /\ ~early /\ ~late => stats.phase \in {"interval", "recovery", "main"}

\* C29 as stated: a point is classified warmup when it lies in the first 15%
\* of the session's elapsed time and cooldown when it lies in the last 15%,
\* whatever the volatility; otherwise it is interval, recovery or main; with
\* contextualAwareness disabled every point is main.
C29_PhaseByElapsedTime == PhaseClassification(InFirstPartOfTime, InLastPartOfTime)

\* C29, amended: a point is classified warmup when its index divided by the
\* number of records is below 0.15 and cooldown when it is above 0.85,
\* whatever the volatility; otherwise it is interval, recovery or main; with
\* contextualAwareness disabled every point is main.
C29_PhaseByPosition == PhaseClassification(InFirstPartOfRecords, InLastPartOfRecords)

\* a point in the last 15% of the records whose speed differs by more than
\* 10% from the record before it is classified cooldown
C29_Witness ==
    /\ PhaseCalled
    /\ call.options.contextualAwareness
    /\ Len(orig) >= 20
    /\ InLastPartOfRecords
    /\ Get(orig[call.options.centerIndex], "enhanced_speed") = Num(12)
    /\ Get(orig[call.options.centerIndex - 1], "enhanced_speed") = Num(8)
    /\ stats.phase = "cooldown"

====
